---------------------------- MODULE Spec2Model ----------------------------
(***************************************************************************)
(* Telekinesis: a peer-to-peer file transfer and chat application.         *)
(*                                                                         *)
(* The repository holds two browser clients: the poll client               *)
(* (static/main_script.js, offer/answer copy-paste signaling, a 1 s        *)
(* get_events poll) and the push client (the room based variant with an    *)
(* EventSource stream).  Both talk to a local backend (server.py,          *)
(* networking.py) through a control API.  The backend's code is not among  *)
(* the sources; it is modelled here from the specification's sections 3    *)
(* to 7: the Session State Machine, the Transfer Engine and the Event      *)
(* Fan-out.  The clients are modelled from their code, handler by handler. *)
(***************************************************************************)
EXTENDS Integers, Sequences, FiniteSets, Bags, TLC

\* ------------------------------------------------------------------ bounds
\* API calls (fetch) of different endpoints that may be in flight at once.
MaxCalls == 1
\* Further calls of an endpoint that is already in flight (a double click).
MaxRepeats == 1
\* Bytes of the largest file that is transferred.
MaxBytes == 2
\* Transfers started per run (outbound and inbound counted together).
MaxTransfers == 2
\* Pending setTimeout(hideProgressCard) timers.
MaxTimers == 2
\* Events queued on the push stream.
MaxStream == 2
MaxMsgs == 2
MaxPolls == 2

\* --------------------------------------------------------------- constants
\* Bytes carried by one file-chunk frame.
ChunkSize == 1

\* ------------------------------------------------------------------- state
VARIABLES
    session,    \* backend: the Session (state, role, descriptors)
    transfers,  \* backend: the active Transfers
    history,    \* backend: occurrences so far (completed, aborted transfers, counters)
    snap,       \* backend: the poll adapter's values since the previous poll
    stream,     \* backend: the push adapter's events in flight to the observer
    observer,   \* backend: whether a push observer is connected
    calls,      \* the fetch calls in flight, with their replies
    app,        \* the poll client (static/main_script.js)
    sse,        \* the push client (the EventSource variant)
    peer        \* the remote peer: its Session, its poll adapter, its page

vars ==
    <<session, transfers, history, snap, stream, observer, calls, app, sse,
      peer>>

\* ------------------------------------------------------- Descriptor Codec
\* Texts a user can paste or upload: the encoded offer and answer, each also
\* with surrounding white space (a trailing newline of a text file), white
\* space alone, text that is no descriptor, and text beyond the maximum size.
Texts ==
    {"", "ws", "offer", "offer_nl", "answer", "answer_nl", "junk", "oversize"}

\* What a plain-text medium (a file saved by an editor, a pasted selection)
\* may hand on: the text with a line end appended.
WithNewline(t) ==
    CASE t = "offer" -> "offer_nl"
      [] t = "answer" -> "answer_nl"
      [] OTHER -> t

\* Trim with a slip: the text is left as it is.
Trim_None(t) == t

\* String.prototype.trim on these texts.
Trim(t) ==
    CASE t = "ws" -> ""
      [] t = "offer_nl" -> "offer"
      [] t = "answer_nl" -> "answer"
      [] OTHER -> t

\* encode(descriptor) -> text.
Encode(d) == IF d = "offerer" THEN "offer" ELSE "answer"

\* decode(text) -> descriptor | DecodeError: empty text and text that does not
\* match the schema fail.
Decode(t) ==
    CASE t = "offer" -> "offerer"
      [] t = "answer" -> "answerer"
      [] OTHER -> "DecodeError"

\* ------------------------------------------------- Session State Machine
SessionStates ==
    {"idle", "offer_pending", "answer_pending", "connecting", "connected",
     "failed", "closed"}

SessionEvents ==
    {"initiate", "accept", "remoteAnswer", "answerExported", "transportOpen",
     "transportError", "peerClose", "disconnect", "reset"}

\* The transition table of section 4.2: <<from, event, to>>.
TransitionTable ==
    { <<"idle", "initiate", "offer_pending">>,
      <<"idle", "accept", "answer_pending">>,
      <<"offer_pending", "remoteAnswer", "connecting">>,
      <<"answer_pending", "answerExported", "connecting">>,
      <<"connecting", "transportOpen", "connected">>,
      <<"connecting", "transportError", "failed">>,
      <<"connected", "peerClose", "closed">>,
      <<"connected", "disconnect", "idle">>,
      <<"failed", "reset", "idle">>,
      <<"closed", "reset", "idle">> }

InTable(s, e) == \E row \in TransitionTable : row[1] = s /\ row[2] = e

TableTarget(s, e) == (CHOOSE row \in TransitionTable : row[1] = s /\ row[2] = e)[3]

\* The Session at process start and after a disconnect or a reset.
IdleSession ==
    [state |-> "idle", role |-> "none", descriptors |-> 0,
     peerDescriptorReceived |-> FALSE]

\* TransitionError with a slip: the remote descriptor is not decoded.
TransitionError_Lax(s, e, text) ==
    IF ~InTable(s, e) THEN "InvalidStateError" ELSE "none"

\* The error, if any, with which event e carrying text fails in state s.
TransitionError(s, e, text) ==
    IF ~InTable(s, e) THEN "InvalidStateError"
    ELSE IF e = "accept" /\ Decode(text) # "offerer" THEN "DecodeError"
    ELSE IF e = "remoteAnswer" /\ Decode(text) # "answerer" THEN "ProtocolError"
    ELSE "none"

\* Transition with a slip: initiate restarts the handshake in whatever state
\* the Session is, with one more descriptor.
Transition_Restart(sess, e, text) ==
    IF e = "initiate"
    THEN [state |-> "offer_pending", role |-> "offerer",
          descriptors |-> sess.descriptors + 1,
          peerDescriptorReceived |-> FALSE]
    ELSE IF TransitionError(sess.state, e, text) # "none" THEN sess
    ELSE IF e \in {"disconnect", "reset"} THEN IdleSession
    ELSE [state |-> TableTarget(sess.state, e),
          role |-> IF e = "accept" THEN "answerer" ELSE sess.role,
          descriptors |-> IF e = "accept"
                          THEN sess.descriptors + 1 ELSE sess.descriptors,
          peerDescriptorReceived |->
              IF e \in {"accept", "remoteAnswer"} THEN TRUE
              ELSE sess.peerDescriptorReceived]

\* The Session after event e carrying text: a failed event leaves it as it
\* was (the error goes to the caller).
Transition(sess, e, text) ==
    LET err == TransitionError(sess.state, e, text) IN
    IF err # "none" THEN sess
    ELSE IF e \in {"disconnect", "reset"} THEN IdleSession
    ELSE [state |-> TableTarget(sess.state, e),
          role |-> IF e = "initiate" THEN "offerer"
                   ELSE IF e = "accept" THEN "answerer" ELSE sess.role,
          descriptors |-> IF e \in {"initiate", "accept"}
                          THEN sess.descriptors + 1 ELSE sess.descriptors,
          peerDescriptorReceived |->
              IF e \in {"accept", "remoteAnswer"} THEN TRUE
              ELSE sess.peerDescriptorReceived]

\* The connection_state the feed reports for a Session state.
ConnectionState(s) ==
    CASE s \in {"idle", "offer_pending", "answer_pending"} -> "disconnected"
      [] OTHER -> s

IsConnected(s) == s = "connected"


\* -------------------------------------------------------- Transfer Engine
\* progress = bytesMoved / totalBytes * 100 clamped to [0, 100]; an empty file
\* reports 100 without dividing.
\* Percent with a slip: an empty file reports 0.
Percent_Zero(moved, total) ==
    IF total = 0 THEN 0
    ELSE LET p == (moved * 100) \div total IN
         IF p > 100 THEN 100 ELSE IF p < 0 THEN 0 ELSE p

Percent(moved, total) ==
    IF total = 0 THEN 100
    ELSE LET p == (moved * 100) \div total IN
         IF p > 100 THEN 100 ELSE IF p < 0 THEN 0 ELSE p

\* The Transfers, the write handles open, the number of Transfers started,
\* and the outbound chat/control frames the Transport Multiplexer has not
\* transmitted yet, each with the number of file chunks sent since it was
\* enqueued.
NoTransfers == [active |-> {}, handles |-> {}, started |-> 0, outbox |-> <<>>]

\* The outbox after one more file chunk.
Waited(outbox) ==
    [i \in 1..Len(outbox) |-> [outbox[i] EXCEPT !.chunks = @ + 1]]

\* No frame of the outbox has waited for a chunk yet.
Drained(outbox) == \A i \in 1..Len(outbox) : outbox[i].chunks = 0

Transfer(id, dir, total) ==
    [id |-> id, direction |-> dir, totalBytes |-> total, bytesMoved |-> 0]

Active(dir) == {t \in transfers.active : t.direction = dir}

\* A chunk moves at most ChunkSize bytes and never more than what is left.
ChunkOf(t) ==
    IF t.totalBytes - t.bytesMoved < ChunkSize
    THEN t.totalBytes - t.bytesMoved ELSE ChunkSize

Moved(t) == [t EXCEPT !.bytesMoved = t.bytesMoved + ChunkOf(t)]

Complete(t) == t.bytesMoved = t.totalBytes

\* ---------------------------------------------------------- Event Fan-out
\* One occurrence on the outward feed.
Event(type) ==
    [type |-> type, state |-> "", text |-> "", progress |-> 0,
     is_sending |-> FALSE, file |-> 0]

OfferCreated(text) == [Event("offer_created") EXCEPT !.text = text]
AnswerCreated(text) == [Event("answer_created") EXCEPT !.text = text]
StateChanged(s) == [Event("connection_state_changed") EXCEPT !.state = s]
Progress(p, sending) ==
    [Event("progress") EXCEPT !.progress = p, !.is_sending = sending]
FileReceived(id) == [Event("file_received") EXCEPT !.file = id]
MessageReceived(text) == [Event("message_received") EXCEPT !.text = text]
ErrorEvent(text) == [Event("error") EXCEPT !.text = text]
Heartbeat == Event("heartbeat")

\* Two messages the push stream may carry that the feed above does not
\* produce: one whose data is not JSON, and a JSON event of a type the
\* client has no case for.
Garbled == Event("garbled")
Unknown == Event("unknown")
Foreign == {Garbled, Unknown}

\* The poll adapter: the latest values since the previous poll.
EmptySnap ==
    [offer |-> "", answer |-> "", has_progress |-> FALSE, progress |-> 0,
     is_sending |-> FALSE, file_received |-> 0, message |-> "", error |-> ""]

\* The snapshot after one more occurrence: each kind has one slot, which the
\* latest occurrence overwrites.  The connection state is read when polled.
Record(sn, ev) ==
    CASE ev.type = "offer_created" -> [sn EXCEPT !.offer = ev.text]
      [] ev.type = "answer_created" -> [sn EXCEPT !.answer = ev.text]
      [] ev.type = "progress" ->
            [sn EXCEPT !.has_progress = TRUE, !.progress = ev.progress,
                       !.is_sending = ev.is_sending]
      [] ev.type = "file_received" -> [sn EXCEPT !.file_received = ev.file]
      [] ev.type = "message_received" -> [sn EXCEPT !.message = ev.text]
      [] ev.type = "error" -> [sn EXCEPT !.error = ev.text]
      [] OTHER -> sn

RECURSIVE RecordAll(_, _)
RecordAll(sn, evs) ==
    IF evs = <<>> THEN sn ELSE RecordAll(Record(sn, Head(evs)), Tail(evs))

\* PollReply with a slip: is_connected is what it was before the Session's
\* last transition, as if the two fields were read at different moments.
PollReply_Torn(sess, sn) ==
    [connection_state |-> ConnectionState(sess.state),
     is_connected |-> sess.state \in {"closed", "connected"},
     offer |-> sn.offer, answer |-> sn.answer,
     has_progress |-> sn.has_progress, progress |-> sn.progress,
     is_sending |-> sn.is_sending, file_received |-> sn.file_received,
     message |-> sn.message, error |-> sn.error]

\* What get_events returns: the snapshot and the Session's connection state,
\* read in one step.
PollReply(sess, sn) ==
    [connection_state |-> ConnectionState(sess.state),
     is_connected |-> IsConnected(sess.state),
     offer |-> sn.offer, answer |-> sn.answer,
     has_progress |-> sn.has_progress, progress |-> sn.progress,
     is_sending |-> sn.is_sending, file_received |-> sn.file_received,
     message |-> sn.message, error |-> sn.error]

\* The push adapter delivers an occurrence to the observer connected when it
\* happens; with no observer connected nothing is queued.
Pushed(q, evs, connected) == IF connected THEN q \o evs ELSE q

\* Room on the push stream for n more events.
Room(n) == ~observer \/ Len(stream) + n <= MaxStream

\* The feed takes the occurrences evs.
Emit(evs) ==
    /\ snap' = RecordAll(snap, evs)
    /\ stream' = Pushed(stream, evs, observer)

\* ------------------------------------------------------- backend: Session
\* What the backend has done so far: the files received, the Transfers
\* aborted, and the ChatMessage log (append-only, in order).
NoHistory == [received |-> {}, aborted |-> {}, log |-> <<>>]

\* The texts of the log's messages of one direction, in the log's order.
RECURSIVE TextsOf(_, _)
TextsOf(log, type) ==
    IF log = <<>> THEN <<>>
    ELSE (IF Head(log).type = type THEN <<Head(log).text>> ELSE <<>>)
         \o TextsOf(Tail(log), type)

\* The Transfers a Session leaves behind when it stops being connected: all
\* are discarded and every write handle is released.
Incomplete == {t \in transfers.active : ~Complete(t)}

\* Occurrences with a slip: the descriptor and the error are put on the feed by
\* the state the Session is in after the event, whether or not the event took
\* it there.
Occurrences_Echo(sess, next, e, ok) ==
    (IF e = "initiate" /\ next.state = "offer_pending"
     THEN <<OfferCreated(Encode("offerer"))>> ELSE <<>>)
    \o (IF e = "answerExported" /\ next.state = "connecting"
        THEN <<AnswerCreated(Encode("answerer"))>> ELSE <<>>)
    \o (IF e = "transportError" /\ next.state = "failed"
        THEN <<ErrorEvent("TransportError")>> ELSE <<>>)
    \o (IF ConnectionState(next.state) # ConnectionState(sess.state)
        THEN <<StateChanged(ConnectionState(next.state))>> ELSE <<>>)

\* The occurrences of event e that took the Session from sess to next; an
\* event that failed (ok is false) took it nowhere and puts nothing on the
\* feed.
Occurrences(sess, next, e, ok) ==
    LET changed == ConnectionState(next.state) # ConnectionState(sess.state)
        torn == sess.state = "connected" /\ next.state # "connected"
    IN  IF ~ok THEN <<>> ELSE
        (IF e = "initiate"
         THEN <<OfferCreated(Encode("offerer"))>> ELSE <<>>)
        \o (IF e = "answerExported"
            THEN <<AnswerCreated(Encode("answerer"))>> ELSE <<>>)
        \o (IF e = "transportError"
            THEN <<ErrorEvent("TransportError")>> ELSE <<>>)
        \o (IF torn /\ Incomplete # {}
            THEN <<ErrorEvent("TransferAborted")>> ELSE <<>>)
        \o (IF changed THEN <<StateChanged(ConnectionState(next.state))>>
            ELSE <<>>)

\* ------------------------------------------ poll client: main_script.js
\* A text file: its name, its content and its MIME type.
NoFile == [name |-> "", content |-> "", type |-> ""]

\* The TelekinesisApp object and the parts of the page it changes, with what
\* it has written to the clipboard, the file it has had downloaded, and the
\* get_events calls it awaits, in the order in which they were issued.
InitApp ==
    [isInitiator |-> FALSE, connectionState |-> "disconnected",
     polling |-> TRUE, loading |-> FALSE, indicator |-> "",
     disconnectBtn |-> FALSE, resetBtn |-> FALSE, transferSection |-> FALSE,
     signalingTitle |-> "", signalingContent |-> "", signalingData |-> FALSE,
     answerSection |-> FALSE, progressCard |-> FALSE, progress |-> 0,
     isSending |-> FALSE, hideTimers |-> 0, chat |-> <<>>, received |-> <<>>,
     notification |-> "", offerInput |-> "", answerInput |-> "",
     messageInput |-> "", selectedFileData |-> -1,
     clipboard |-> "", download |-> NoFile, polls |-> <<>>]

showLoading(a) == [a EXCEPT !.loading = TRUE]

\* hideLoading with a slip: the overlay stays.
hideLoading_Stay(a) == a

hideLoading(a) == [a EXCEPT !.loading = FALSE]
\* showResetButton with a slip: the control is left as it is.
showResetButton_Not(a) == a

showResetButton(a) == [a EXCEPT !.resetBtn = TRUE]

\* hideResetButton with a slip: the button stays as it is.
hideResetButton_Stay(a) == a

hideResetButton(a) == [a EXCEPT !.resetBtn = FALSE]
\* showNotification(message, type): the type of the latest notification is
\* kept (info, success, warning, error).
showNotification(a, type) == [a EXCEPT !.notification = type]

showSignalingData(a, title, data) ==
    [a EXCEPT !.signalingTitle = title, !.signalingContent = data,
              !.signalingData = TRUE]
showAnswerSection(a) == [a EXCEPT !.answerSection = TRUE]
hideAnswerSection(a) == [a EXCEPT !.answerSection = FALSE]

\* hideProgressCard with a slip: the card stays.
hideProgressCard_Stay(a) == a

hideProgressCard(a) == [a EXCEPT !.progressCard = FALSE]

\* At 100 % a timer is set that hides the card 2 s later.
updateProgress(a, progress, isSending) ==
    [a EXCEPT !.progress = progress, !.isSending = isSending,
              !.hideTimers = IF progress >= 100 THEN @ + 1 ELSE @]

showProgressCard(a, isSending) ==
    updateProgress([a EXCEPT !.progressCard = TRUE], 0, isSending)

\* insertBefore(fileItem, firstChild): the newest entry comes first.
addReceivedFile(a, file) == [a EXCEPT !.received = <<file>> \o @]

addChatMessage(a, message, type) ==
    [a EXCEPT !.chat = Append(@, [text |-> message, type |-> type])]

\* updateConnectionState with a slip: the page is left as it is.
updateConnectionState_Skip(a, state, isConnected) == a

updateConnectionState(a, state, isConnected) ==
    LET b == [a EXCEPT !.indicator =
                  IF isConnected THEN "connected"
                  ELSE IF state = "connecting" THEN "connecting" ELSE ""]
    IN  IF isConnected
        THEN hideResetButton([b EXCEPT !.disconnectBtn = TRUE,
                                       !.transferSection = TRUE])
        ELSE [b EXCEPT !.disconnectBtn = FALSE, !.transferSection = FALSE]

\* resetUI with a slip: the page is left as it is.
resetUI_Keep(a) == a

resetUI(a) ==
    LET b == [a EXCEPT !.connectionState = "disconnected",
                       !.isInitiator = FALSE,
                       !.transferSection = FALSE,
                       !.signalingData = FALSE,
                       !.answerSection = FALSE,
                       !.disconnectBtn = FALSE]
        c == [hideResetButton(b) EXCEPT !.offerInput = "", !.answerInput = "",
                                        !.messageInput = "",
                                        !.selectedFileData = -1,
                                        !.chat = <<>>]
    IN  updateConnectionState(hideProgressCard(c), "disconnected", FALSE)

\* handleEvents(events), branch by branch in the order of the code.
handleEvents(a, events) ==
    LET a1 == IF events.connection_state # a.connectionState
              THEN updateConnectionState(
                       [a EXCEPT !.connectionState = events.connection_state],
                       events.connection_state, events.is_connected)
              ELSE a
        a2 == IF events.connection_state = "connected" /\ events.is_connected
              THEN hideLoading(a1) ELSE a1
        a3 == IF events.connection_state \in {"closed", "failed", "disconnected"}
              THEN showResetButton(
                     IF events.connection_state = "closed"
                     THEN showNotification(hideLoading(a2), "warning")
                     ELSE IF events.connection_state = "failed"
                     THEN showNotification(hideLoading(a2), "error")
                     ELSE hideLoading(a2))
              ELSE a2
        a4 == IF events.offer # ""
              THEN showAnswerSection(
                     showSignalingData(hideLoading(a3), "Connection Offer",
                                       events.offer))
              ELSE a3
        a5 == IF events.answer # ""
              THEN showSignalingData(hideLoading(a4), "Connection Answer",
                                     events.answer)
              ELSE a4
        a6 == IF events.has_progress
              THEN updateProgress(a5, events.progress, events.is_sending)
              ELSE a5
        a7 == IF events.file_received # 0
              THEN showNotification(
                     addReceivedFile(hideProgressCard(a6), events.file_received),
                     "success")
              ELSE a6
        a8 == IF events.message # ""
              THEN addChatMessage(a7, events.message, "received")
              ELSE a7
    IN  IF events.error # ""
        THEN showNotification(hideProgressCard(hideLoading(a8)), "error")
        ELSE a8

\* copySignalingData(): the text on display goes to the clipboard.
copySignalingData(a) ==
    showNotification([a EXCEPT !.clipboard = a.signalingContent], "success")

\* handleOfferFileUpload(e): a text file is read into the offer box, any
\* other file is refused.
handleOfferFileUpload(a, file) ==
    IF file.type = "text/plain"
    THEN showNotification([a EXCEPT !.offerInput = file.content], "success")
    ELSE showNotification(a, "warning")

\* handleAnswerFileUpload(e): the same for the answer box.
handleAnswerFileUpload(a, file) ==
    IF file.type = "text/plain"
    THEN showNotification([a EXCEPT !.answerInput = file.content], "success")
    ELSE showNotification(a, "warning")

\* The file name downloadSignalingData gives the exported descriptor.
downloadFilename(a) ==
    IF a.isInitiator THEN "connection_offer.txt" ELSE "connection_answer.txt"

\* downloadSignalingData(): the text on display is saved as a text file.
downloadSignalingData(a) ==
    showNotification(
        [a EXCEPT !.download = [name |-> downloadFilename(a),
                                content |-> a.signalingContent,
                                type |-> "text/plain"]],
        "success")

\* destroy(): the poll stops.
destroy(a) == [a EXCEPT !.polling = FALSE]

\* ------------------------------------- push client: the EventSource variant
\* The TelekinesisApp object of the push client after its constructor, which
\* opens the event stream, and the parts of the page it changes.  eventSource
\* is the readyState (connecting, open, closed) of the EventSource that
\* this.eventSource refers to, streams the number of EventSource objects the
\* client has created and not closed, retryDelay the delay, in seconds, of
\* the timer onerror set last, and destroyed records that destroy() has run.
InitSse ==
    [connectionState |-> "disconnected", eventSource |-> "connecting",
     streams |-> 1, reconnecting |-> FALSE, destroyed |-> FALSE, retryDelay |-> 0, indicator |-> "", disconnectBtn |-> FALSE,
     resetBtn |-> FALSE, transferSection |-> FALSE, loading |-> FALSE,
     progressCard |-> FALSE, progress |-> 0, isSending |-> FALSE,
     hideTimers |-> 0, received |-> <<>>, notification |-> ""]

\* updateConnectionState(state) of the push client.
pushUpdateConnectionState(a, state) ==
    LET b == [a EXCEPT !.connectionState = state] IN
    IF state = "connected"
    THEN hideLoading([b EXCEPT !.indicator = "connected",
                               !.disconnectBtn = TRUE, !.resetBtn = FALSE,
                               !.transferSection = TRUE])
    ELSE IF state = "connecting"
    THEN [b EXCEPT !.indicator = "connecting"]
    ELSE IF state \in {"failed", "closed"}
    THEN showNotification([b EXCEPT !.indicator = "",
                                    !.disconnectBtn = FALSE,
                                    !.resetBtn = TRUE],
                          IF state = "failed" THEN "error" ELSE "warning")
    ELSE [b EXCEPT !.indicator = ""]

\* handleEvent with a slip: a type without a case is treated as an error.
pushHandleEvent_Strict(a, ev) ==
    CASE ev.type = "connection_state_changed" ->
           pushUpdateConnectionState(a, ev.state)
      [] ev.type = "file_received" ->
           showNotification(addReceivedFile(hideProgressCard(a), ev.file),
                            "success")
      [] ev.type = "progress" -> updateProgress(a, ev.progress, ev.is_sending)
      [] OTHER ->
           showNotification(hideProgressCard(hideLoading(a)), "error")

\* handleEvent(event) of the push client.
pushHandleEvent(a, ev) ==
    CASE ev.type = "connection_state_changed" ->
           pushUpdateConnectionState(a, ev.state)
      [] ev.type = "file_received" ->
           showNotification(addReceivedFile(hideProgressCard(a), ev.file),
                            "success")
      [] ev.type = "progress" -> updateProgress(a, ev.progress, ev.is_sending)
      [] ev.type = "error" ->
           showNotification(hideProgressCard(hideLoading(a)), "error")
      [] OTHER -> a

\* resetUI() of the push client.
pushResetUI(a) ==
    pushUpdateConnectionState(
        hideProgressCard([a EXCEPT !.transferSection = FALSE,
                                   !.disconnectBtn = FALSE,
                                   !.resetBtn = FALSE]),
        "disconnected")

\* onmessage with a slip: a heartbeat is notified to the user.
onmessage_Beat(a, ev) ==
    IF ev.type = "heartbeat" THEN showNotification(a, "info")
    ELSE pushHandleEvent(a, ev)

\* JSON.parse(event.data) returns: the data is JSON.
IsJson(ev) == ev # Garbled

\* eventSource.onmessage: data that does not parse ends in the catch block,
\* which only logs; a heartbeat is dropped, any other event handled.
onmessage(a, ev) ==
    IF ~IsJson(ev) THEN a
    ELSE IF ev.type = "heartbeat" THEN a
    ELSE pushHandleEvent(a, ev)

\* The delay of the timer of onerror, in seconds.
RetryDelay == 3

\* close() of the EventSource this.eventSource refers to: nothing happens to
\* one that is closed already.
closeStream(a) ==
    [a EXCEPT !.eventSource = "closed",
              !.streams = IF a.eventSource = "closed" THEN @ ELSE @ - 1]

\* onerror with a slip: the stream is not closed, so that the browser retries
\* it by itself while the timer opens another one.
onerror_Open(a) ==
    [a EXCEPT !.eventSource = "connecting", !.reconnecting = TRUE,
              !.retryDelay = RetryDelay]

\* eventSource.onerror: the stream is closed and a timer set that reopens it
\* 3 s later.
onerror(a) ==
    [closeStream(a) EXCEPT !.reconnecting = TRUE, !.retryDelay = RetryDelay]

\* eventSource.onopen: the stream is established (the handler only logs).
onopen(a) == [a EXCEPT !.eventSource = "open"]

\* startEventStream(), run by the timer of onerror: a new EventSource, which
\* this.eventSource refers to from now on; the one it referred to before is
\* left as it is.
startEventStream(a) ==
    [a EXCEPT !.eventSource = "connecting", !.streams = @ + 1,
              !.reconnecting = FALSE]

\* destroy() of the push client: the stream is closed.
pushDestroy(a) == [closeStream(a) EXCEPT !.destroyed = TRUE]

\* ----------------------------------------------------------- fetch calls
\* A call of the control API in flight: sent, then served by the backend
\* (replied) or lost (failed), then read by the client's continuation.  The
\* calls in flight are a bag: they are served and answered in any order.
Call(ep, arg, size) ==
    [ep |-> ep, arg |-> arg, size |-> size, phase |-> "sent", status |-> "",
     message |-> ""]

\* The reply envelope {status, message?}.
Replied(c, error) ==
    [c EXCEPT !.phase = "replied",
              !.status = IF error = "none" THEN "success" ELSE "error",
              !.message = IF error = "none" THEN "" ELSE error]

InFlight == BagToSet(calls)

Replace(c, d) == (calls (-) SetToBag({c})) (+) SetToBag({d})

clientVars == <<app, sse, peer>>
backendVars == <<session, transfers, history, snap, stream, observer>>

\* ------------------------------------------------------ backend: actions
\* ApplySession with a slip: the Transfers and their write handles outlive
\* the connected state.
ApplySession_Keep(e, text) ==
    LET next == Transition(session, e, text)
        evs == Occurrences(session, next, e,
                           TransitionError(session.state, e, text) = "none")
    IN  /\ Room(Len(evs))
        /\ session' = next
        /\ Emit(evs)
        /\ UNCHANGED <<transfers, history, observer>>

\* Event e, carrying text, is applied to the Session.  Leaving the connected
\* state tears down every Transfer and releases every write handle.
ApplySession(e, text) ==
    LET next == Transition(session, e, text)
        evs == Occurrences(session, next, e,
                           TransitionError(session.state, e, text) = "none")
        torn == session.state = "connected" /\ next.state # "connected"
    IN  /\ Room(Len(evs))
        /\ session' = next
        /\ transfers' = IF torn
                        THEN [transfers EXCEPT !.active = {}, !.handles = {},
                                               !.outbox = <<>>]
                        ELSE transfers
        /\ history' = IF torn
                      THEN [history EXCEPT !.aborted =
                               @ \cup {t.id : t \in Incomplete}]
                      ELSE history
        /\ Emit(evs)
        /\ UNCHANGED observer

\* The Session event a control API endpoint triggers.
EndpointEvent(ep) ==
    CASE ep = "create_offer" -> "initiate"
      [] ep = "create_answer" -> "accept"
      [] ep = "set_answer" -> "remoteAnswer"
      [] ep = "disconnect" -> "disconnect"

SessionEndpoints == {"create_offer", "create_answer", "set_answer", "disconnect"}

\* ServeSession with a slip: a call waits until no Transfer is active.
ServeSession_Wait(c) ==
    /\ c \in InFlight
    /\ c.phase = "sent"
    /\ c.ep \in SessionEndpoints
    /\ transfers.active = {}
    /\ ApplySession(EndpointEvent(c.ep), c.arg)
    /\ calls' = Replace(c, Replied(c, TransitionError(session.state,
                                         EndpointEvent(c.ep), c.arg)))
    /\ UNCHANGED clientVars

\* The backend serves a call that triggers a Session event.
ServeSession(c) ==
    /\ c \in InFlight
    /\ c.phase = "sent"
    /\ c.ep \in SessionEndpoints
    /\ ApplySession(EndpointEvent(c.ep), c.arg)
    /\ calls' = Replace(c, Replied(c, TransitionError(session.state,
                                         EndpointEvent(c.ep), c.arg)))
    /\ UNCHANGED clientVars

\* The error with which send(file) fails, if any.
SendError ==
    IF session.state # "connected" THEN "InvalidStateError"
    ELSE IF transfers.active # {} THEN "AlreadyTransferringError"
    ELSE "none"

\* send(file): creates the outbound Transfer and reports progress at once; an
\* empty file is complete at once.
Send(total) ==
    LET id == transfers.started + 1
        t == Transfer(id, "outbound", total)
        evs == <<Progress(Percent(0, total), TRUE)>>
    IN  /\ Room(Len(evs))
        /\ transfers' = [transfers EXCEPT
                            !.active = IF Complete(t) THEN @ ELSE @ \cup {t},
                            !.started = id]
        /\ Emit(evs)
        /\ UNCHANGED <<session, history, observer>>

\* The backend serves send_file.
ServeSendFile(c) ==
    /\ c \in InFlight
    /\ c.phase = "sent"
    /\ c.ep = "send_file"
    /\ IF SendError # "none"
       THEN UNCHANGED backendVars
       ELSE transfers.started < MaxTransfers /\ Send(c.size)
    /\ calls' = Replace(c, Replied(c, SendError))
    /\ UNCHANGED clientVars

\* An event of the transport or of the backend itself, in whatever state the
\* Session is.
BackendEvent(e) ==
    /\ e \in {"answerExported", "transportOpen", "transportError",
              "peerClose", "reset"}
    /\ ApplySession(e, "")
    /\ UNCHANGED <<calls, clientVars>>

\* SendChunk with a slip: the chunks are sent as one unbroken burst, whatever
\* waits in the outbox.
SendChunk_Burst ==
    \E t \in Active("outbound") :
        LET u == Moved(t)
            evs == <<Progress(Percent(u.bytesMoved, u.totalBytes), TRUE)>>
        IN  /\ Room(Len(evs))
            /\ transfers' = [transfers EXCEPT
                   !.active = (@ \ {t}) \cup (IF Complete(u) THEN {} ELSE {u}),
                   !.outbox = Waited(@)]
            /\ Emit(evs)
            /\ UNCHANGED <<session, history, observer, calls, clientVars>>

\* One chunk of the outbound Transfer is accepted by the transport.  Frames
\* are interleaved at chunk granularity: one chunk, then the pending
\* chat/control frames are drained, so that no chunk is sent while a frame
\* that has already waited for one is pending.
SendChunk ==
    \E t \in Active("outbound") :
        LET u == Moved(t)
            evs == <<Progress(Percent(u.bytesMoved, u.totalBytes), TRUE)>>
        IN  /\ Drained(transfers.outbox)
            /\ Room(Len(evs))
            /\ transfers' = [transfers EXCEPT
                   !.active = (@ \ {t}) \cup (IF Complete(u) THEN {} ELSE {u}),
                   !.outbox = Waited(@)]
            /\ Emit(evs)
            /\ UNCHANGED <<session, history, observer, calls, clientVars>>

\* The Transport Multiplexer transmits the first pending frame of the outbox.
DrainFrame ==
    /\ session.state = "connected"
    /\ transfers.outbox # <<>>
    /\ transfers' = [transfers EXCEPT !.outbox = Tail(@)]
    /\ UNCHANGED <<session, history, snap, stream, observer, calls, clientVars>>

\* onMetadataFrame(filename, totalBytes): the peer starts sending a file.  The
\* transport is ordered, so the frame comes after every chunk of the peer's
\* previous file.
OnMetadataFrame(total) ==
    LET id == transfers.started + 1
        t == Transfer(id, "inbound", total)
        evs == IF Complete(t)
               THEN <<Progress(100, FALSE), FileReceived(id)>> ELSE <<>>
    IN  /\ session.state = "connected"
        /\ Active("inbound") = {}
        /\ transfers.started < MaxTransfers
        /\ Room(Len(evs))
        /\ transfers' = [transfers EXCEPT
                            !.active = IF Complete(t) THEN @ ELSE @ \cup {t},
                            !.handles = IF Complete(t) THEN @ ELSE @ \cup {id},
                            !.started = id]
        /\ history' = IF Complete(t)
                      THEN [history EXCEPT !.received = @ \cup {id}]
                      ELSE history
        /\ Emit(evs)
        /\ UNCHANGED <<session, observer, calls, clientVars>>

\* onChunkFrame(bytes): appended to the write handle; the last chunk releases
\* the handle and the file is reported.
OnChunkFrame ==
    \E t \in Active("inbound") :
        LET u == Moved(t)
            evs == <<Progress(Percent(u.bytesMoved, u.totalBytes), FALSE)>>
                   \o (IF Complete(u) THEN <<FileReceived(u.id)>> ELSE <<>>)
        IN  /\ Room(Len(evs))
            /\ transfers' = [transfers EXCEPT
                   !.active = (@ \ {t}) \cup (IF Complete(u) THEN {} ELSE {u}),
                   !.handles = IF Complete(u) THEN @ \ {u.id} ELSE @]
            /\ history' = IF Complete(u)
                          THEN [history EXCEPT !.received = @ \cup {u.id}]
                          ELSE history
            /\ Emit(evs)
            /\ UNCHANGED <<session, observer, calls, clientVars>>

\* The chat messages of the model.
Msgs == {"m1", "m2"}

\* A chat frame of the peer arrives on the control channel: it is appended to
\* the log and put on the feed.
OnChatFrame(m) ==
    LET evs == <<MessageReceived(m)>>
    IN  /\ session.state = "connected"
        /\ Len(TextsOf(history.log, "received")) < MaxMsgs
        /\ Room(Len(evs))
        /\ history' = [history EXCEPT
                          !.log = Append(@, [text |-> m, type |-> "received"])]
        /\ Emit(evs)
        /\ UNCHANGED <<session, transfers, observer, calls, clientVars>>

\* The backend serves send_message: the outbound ChatMessage is appended to
\* the log and enqueued for the control channel.
ServeSendMessage(c) ==
    LET error == IF session.state = "connected" THEN "none"
                 ELSE "InvalidStateError"
    IN  /\ c \in InFlight
        /\ c.phase = "sent"
        /\ c.ep = "send_message"
        /\ history' = IF error = "none"
                      THEN [history EXCEPT
                              !.log = Append(@, [text |-> c.arg, type |-> "sent"])]
                      ELSE history
        /\ transfers' = IF error = "none"
                        THEN [transfers EXCEPT
                                !.outbox = Append(@, [text |-> c.arg, chunks |-> 0])]
                        ELSE transfers
        /\ calls' = Replace(c, Replied(c, error))
        /\ UNCHANGED <<session, snap, stream, observer, clientVars>>

\* The write handle of the inbound Transfer cannot be flushed: StorageError.
\* The Transfer is discarded, its handle released and the error surfaced.
StorageFail ==
    \E t \in Active("inbound") :
        LET evs == <<ErrorEvent("StorageError")>>
        IN  /\ Room(Len(evs))
            /\ transfers' = [transfers EXCEPT !.active = @ \ {t},
                                              !.handles = @ \ {t.id}]
            /\ history' = [history EXCEPT !.aborted = @ \cup {t.id}]
            /\ Emit(evs)
            /\ UNCHANGED <<session, observer, calls, clientVars>>

\* -------------------------------------------------- poll client: actions
\* The buttons of the connection section can be clicked while the section is
\* displayed, those of the transfer section while that one is.
ConnectionSection == ~app.transferSection

Fetch(ep, arg, size) ==
    /\ \/ BagCardinality(calls) < MaxCalls
       \/ /\ \E c \in InFlight : c.ep = ep
          /\ BagCardinality(calls) < MaxCalls + MaxRepeats
    /\ calls' = calls (+) SetToBag({Call(ep, arg, size)})

\* createOffer() up to its await.
CreateOffer ==
    /\ ConnectionSection
    /\ app' = showLoading([app EXCEPT !.isInitiator = TRUE])
    /\ Fetch("create_offer", "", 0)
    /\ UNCHANGED <<backendVars, sse, peer>>

\* createAnswer() up to its await, or to its early return, on the text t that
\* the user has pasted or uploaded (handleOfferFileUpload) into the offer box.
CreateAnswer(t) ==
    /\ ConnectionSection
    /\ LET a == [app EXCEPT !.offerInput = t]
           offer == Trim(a.offerInput)
       IN  IF offer = ""
           THEN /\ app' = showNotification(a, "warning")
                /\ UNCHANGED calls
           ELSE /\ app' = showLoading([a EXCEPT !.isInitiator = FALSE])
                /\ Fetch("create_answer", offer, 0)
    /\ UNCHANGED <<backendVars, sse, peer>>

\* setAnswer() up to its await, or to its early return, on the text t of the
\* answer box (handleAnswerFileUpload).
SetAnswer(t) ==
    /\ ConnectionSection
    /\ app.answerSection
    /\ LET a == [app EXCEPT !.answerInput = t]
           answer == Trim(a.answerInput)
       IN  IF answer = ""
           THEN /\ app' = showNotification(a, "warning")
                /\ UNCHANGED calls
           ELSE /\ app' = showLoading(a)
                /\ Fetch("set_answer", answer, 0)
    /\ UNCHANGED <<backendVars, sse, peer>>

\* disconnect() up to its await.
Disconnect ==
    /\ app.disconnectBtn
    /\ Fetch("disconnect", "", 0)
    /\ UNCHANGED <<backendVars, clientVars>>

\* The reset button: resetUI().
ResetClick ==
    /\ app.resetBtn
    /\ app' = resetUI(app)
    /\ UNCHANGED <<backendVars, calls, sse, peer>>

\* selectFile(file): a file of n bytes.
SelectFile(n) ==
    /\ app.transferSection
    /\ app.selectedFileData # n
    /\ app' = [app EXCEPT !.selectedFileData = n]
    /\ UNCHANGED <<backendVars, calls, sse, peer>>

\* sendFile() up to its await, or to its early return.
SendFile ==
    /\ app.transferSection
    /\ IF app.selectedFileData = -1
       THEN /\ app' = showNotification(app, "warning")
            /\ UNCHANGED calls
       ELSE /\ app' = showProgressCard(app, TRUE)
            /\ Fetch("send_file", "", app.selectedFileData)
    /\ UNCHANGED <<backendVars, sse, peer>>

\* SendMessage with a slip: the message is sent whatever it trims to.
SendMessage_Blank(m) ==
    /\ app.transferSection
    /\ Len(TextsOf(app.chat, "sent"))
         + Cardinality({c \in InFlight : c.ep = "send_message"}) < MaxMsgs
    /\ app' = [app EXCEPT !.messageInput = m]
    /\ Fetch("send_message", Trim(m), 0)
    /\ UNCHANGED <<backendVars, sse, peer>>

\* The user types m and sends it: sendMessage() up to its await, or to its
\* early return on an empty message.
SendMessage(m) ==
    /\ app.transferSection
    /\ Len(TextsOf(app.chat, "sent"))
         + Cardinality({c \in InFlight : c.ep = "send_message"}) < MaxMsgs
    /\ app' = [app EXCEPT !.messageInput = m]
    /\ IF Trim(m) = ""
       THEN UNCHANGED calls
       ELSE Fetch("send_message", Trim(m), 0)
    /\ UNCHANGED <<backendVars, sse, peer>>

\* One round of startPolling()'s interval callback: the fetch of get_events,
\* the backend's snapshot (which empties the adapter) and handleEvents.
Poll ==
    /\ app.polling
    /\ app' = handleEvents(app, PollReply(session, snap))
    /\ app'.hideTimers <= MaxTimers
    /\ snap' = EmptySnap
    /\ UNCHANGED <<session, transfers, history, stream, observer, calls, sse, peer>>

\* Continue with a slip: disconnect resets the page whatever the reply says.
Continue_Reset(a, c) ==
    LET ok == c.phase = "replied" /\ c.status = "success" IN
    CASE c.ep = "disconnect" -> resetUI(showNotification(a, "info"))
      [] c.ep = "send_file" ->
           IF ok THEN showNotification(a, "info")
           ELSE showNotification(hideProgressCard(a), "error")
      [] OTHER ->
           IF ok THEN showNotification(a, "info")
           ELSE showNotification(hideLoading(a), "error")

\* The continuation of the call c after its await.
Continue(a, c) ==
    LET ok == c.phase = "replied" /\ c.status = "success" IN
    CASE c.ep = "create_offer" ->
           IF ok THEN showNotification(a, "info")
           ELSE showNotification(hideLoading(a), "error")
      [] c.ep = "create_answer" ->
           IF ok THEN [showNotification(a, "info") EXCEPT !.offerInput = ""]
           ELSE showNotification(hideLoading(a), "error")
      [] c.ep = "set_answer" ->
           IF ok
           THEN hideAnswerSection(
                  [showNotification(a, "info") EXCEPT !.answerInput = ""])
           ELSE showNotification(hideLoading(a), "error")
      [] c.ep = "disconnect" ->
           IF ok THEN resetUI(showNotification(a, "info"))
           ELSE IF c.phase = "failed" THEN showNotification(a, "error")
           ELSE a
      [] c.ep = "send_file" ->
           IF ok THEN showNotification(a, "info")
           ELSE showNotification(hideProgressCard(a), "error")
      [] c.ep = "send_message" ->
           IF ok THEN [addChatMessage(a, c.arg, "sent") EXCEPT !.messageInput = ""]
           ELSE showNotification(a, "error")

\* The response of call c arrives: the handler resumes.
Reply(c) ==
    /\ c \in InFlight
    /\ c.phase = "replied"
    /\ app' = Continue(app, c)
    /\ calls' = calls (-) SetToBag({c})
    /\ UNCHANGED <<backendVars, sse, peer>>

\* The response a get_events call has before the backend has served it.
NoEvents == PollReply(IdleSession, EmptySnap)

\* The interval callback of startPolling() step by step.  It fires every
\* second whether or not the previous call has returned: get_events is
\* issued,
PollSend ==
    /\ app.polling
    /\ Len(app.polls) < MaxPolls
    /\ app' = [app EXCEPT !.polls = Append(@, [phase |-> "sent",
                                               events |-> NoEvents])]
    /\ UNCHANGED <<backendVars, calls, sse, peer>>

\* the backend serves the i-th call awaited with its snapshot, which empties
\* the adapter,
PollServe(i) ==
    /\ i \in 1..Len(app.polls)
    /\ app.polls[i].phase = "sent"
    /\ app' = [app EXCEPT !.polls[i] = [phase |-> "replied",
                                       events |-> PollReply(session, snap)]]
    /\ snap' = EmptySnap
    /\ UNCHANGED <<session, transfers, history, stream, observer, calls, sse, peer>>

\* and the response of the i-th call awaited arrives: handleEvents.
PollReceive(i) ==
    /\ i \in 1..Len(app.polls)
    /\ app.polls[i].phase = "replied"
    /\ LET rest == [j \in 1..(Len(app.polls) - 1) |->
                       IF j < i THEN app.polls[j] ELSE app.polls[j + 1]]
       IN  app' = handleEvents([app EXCEPT !.polls = rest], app.polls[i].events)
    /\ app'.hideTimers <= MaxTimers
    /\ UNCHANGED <<backendVars, calls, sse, peer>>

\* The request of call c or its response is lost: fetch rejects and the
\* handler resumes in its catch block.
NetworkFail(c) ==
    /\ c \in InFlight
    /\ c.phase \in {"sent", "replied"}
    /\ app' = Continue(app, [c EXCEPT !.phase = "failed"])
    /\ calls' = calls (-) SetToBag({c})
    /\ UNCHANGED <<backendVars, sse, peer>>

\* A 2 s timer of updateProgress fires.
ProgressTimer ==
    /\ app.hideTimers > 0
    /\ app' = hideProgressCard([app EXCEPT !.hideTimers = @ - 1])
    /\ UNCHANGED <<backendVars, calls, sse, peer>>

\* -------------------------------------------------- push client: actions
\* The stream delivers its next event: onmessage runs.
StreamDeliver ==
    /\ observer
    /\ sse.eventSource = "open"
    /\ stream # <<>>
    /\ sse' = onmessage(sse, Head(stream))
    /\ sse'.hideTimers <= MaxTimers
    /\ stream' = Tail(stream)
    /\ UNCHANGED <<session, transfers, history, snap, observer, calls, app, peer>>

\* The backend's periodic heartbeat on the push stream.
SendHeartbeat ==
    /\ observer
    /\ Len(stream) < MaxStream
    /\ stream' = Append(stream, Heartbeat)
    /\ UNCHANGED <<session, transfers, history, snap, observer, calls,
                   clientVars>>

\* The stream drops: onerror runs, the backend loses its observer and what
\* was in flight on the stream is gone.
StreamError ==
    /\ sse.eventSource \in {"connecting", "open"}
    /\ sse' = onerror(sse)
    /\ observer' = FALSE
    /\ stream' = <<>>
    /\ UNCHANGED <<session, transfers, history, snap, calls, app, peer>>

\* The timer of onerror fires: a new EventSource starts connecting.
Reconnect ==
    /\ sse.reconnecting
    /\ sse' = startEventStream(sse)
    /\ UNCHANGED <<backendVars, calls, app, peer>>

\* The backend is reached: the stream is established and the backend has an
\* observer again.
StreamOpen ==
    /\ sse.eventSource = "connecting"
    /\ sse' = onopen(sse)
    /\ observer' = TRUE
    /\ stream' = <<>>
    /\ UNCHANGED <<session, transfers, history, snap, calls, app, peer>>

\* A 2 s timer of the push client's updateProgress fires.
PushProgressTimer ==
    /\ sse.hideTimers > 0
    /\ sse' = hideProgressCard([sse EXCEPT !.hideTimers = @ - 1])
    /\ UNCHANGED <<backendVars, calls, app, peer>>

\* --------------------------------------------------- remote peer: actions
\* The remote peer runs the same backend and the same poll client.  Its steps
\* are taken whole: a click, the call it makes, the backend's reply and the
\* continuation are one step.
InitPeer == [session |-> IdleSession, snap |-> EmptySnap, app |-> InitApp]

\* Event e, carrying text, is applied to the peer's Session.
PeerApply(p, e, text) ==
    LET ok == TransitionError(p.session.state, e, text) = "none"
        next == Transition(p.session, e, text)
    IN  [p EXCEPT !.session = next,
                  !.snap = RecordAll(@, Occurrences(p.session, next, e, ok))]

\* The offer on display at the offerer has reached the peer's user, who
\* pastes it and clicks Create Answer: createAnswer() and its call.
PeerCreateAnswer ==
    /\ app.signalingData
    /\ app.signalingTitle = "Connection Offer"
    /\ ~peer.app.transferSection
    /\ LET a == [peer.app EXCEPT !.offerInput = app.signalingContent]
           offer == Trim(a.offerInput)
           c == Replied(Call("create_answer", offer, 0),
                        TransitionError(peer.session.state, "accept", offer))
       IN  /\ offer # ""
           /\ peer' = [PeerApply(peer, "accept", offer) EXCEPT
                          !.app = Continue(
                                    showLoading([a EXCEPT !.isInitiator = FALSE]),
                                    c)]
    /\ peer' # peer
    /\ UNCHANGED <<backendVars, calls, app, sse>>

\* The peer's backend has its answer ready.
PeerAnswerExported ==
    /\ peer.session.state = "answer_pending"
    /\ peer' = PeerApply(peer, "answerExported", "")
    /\ UNCHANGED <<backendVars, calls, app, sse>>

\* One round of the peer's poll.
PeerPoll ==
    /\ peer.app.polling
    /\ peer' = [peer EXCEPT
                   !.app = handleEvents(@, PollReply(peer.session, peer.snap)),
                   !.snap = EmptySnap]
    /\ peer' # peer
    /\ UNCHANGED <<backendVars, calls, app, sse>>

\* The transport opens once both Sessions negotiate: each side is told.
LinkReady(s, t) == s = "connecting" /\ t \in {"connecting", "connected"}

LinkOpen ==
    /\ LinkReady(session.state, peer.session.state)
    /\ ApplySession("transportOpen", "")
    /\ UNCHANGED <<calls, clientVars>>

PeerLinkOpen ==
    /\ LinkReady(peer.session.state, session.state)
    /\ peer' = PeerApply(peer, "transportOpen", "")
    /\ UNCHANGED <<backendVars, calls, app, sse>>

\* The answer on display at the peer has reached the offerer's user, who
\* pastes it and clicks Connect.
PasteAnswer ==
    /\ peer.app.signalingData
    /\ peer.app.signalingTitle = "Connection Answer"
    /\ SetAnswer(peer.app.signalingContent)

\* ---------------------------------------------------------- specification
\* The push client when its page is not the one loaded.
NoSse == pushDestroy(InitSse)

Init ==
    /\ session = IdleSession
    /\ transfers = NoTransfers
    /\ history = NoHistory
    /\ snap = EmptySnap
    /\ stream = <<>>
    /\ observer = FALSE
    /\ calls = EmptyBag
    /\ app = InitApp
    /\ sse = NoSse
    /\ peer = InitPeer

\* The handshake: the poll client, its calls, which the network may lose, and
\* the Session.
Next ==
    \/ CreateOffer
    \/ \E t \in {"offer_nl"} : CreateAnswer(t)
    \/ \E t \in {"answer_nl"} : SetAnswer(t)
    \/ Disconnect
    \/ ResetClick
    \/ Poll
    \/ \E c \in InFlight : ServeSession(c)
    \/ \E c \in InFlight : Reply(c)
    \/ \E c \in InFlight : NetworkFail(c)
    \/ \E e \in SessionEvents : BackendEvent(e)

Spec == Init /\ [][Next]_vars

\* ------------------------------------------- specification: transfers
\* The Session and the poll client once the handshake of the offerer is
\* through: create_offer, the offer polled, set_answer, transport open, the
\* connected state polled.
ConnectedSession ==
    Transition(
      Transition(
        Transition(IdleSession, "initiate", ""),
        "remoteAnswer", Encode("answerer")),
      "transportOpen", "")

ConnectedApp ==
    LET offered == [Call("create_offer", "", 0) EXCEPT
                       !.phase = "replied", !.status = "success"]
        answered == [Call("set_answer", "answer", 0) EXCEPT
                       !.phase = "replied", !.status = "success"]
        a1 == showLoading([InitApp EXCEPT !.isInitiator = TRUE])
        a2 == Continue(a1, offered)
        a3 == handleEvents(a2, PollReply(Transition(IdleSession, "initiate", ""),
                                         Record(EmptySnap, OfferCreated("offer"))))
        a4 == showLoading([a3 EXCEPT !.answerInput = "answer_nl"])
        a5 == Continue(a4, answered)
    IN  handleEvents(a5, PollReply(ConnectedSession, EmptySnap))

InitTransfer ==
    /\ session = ConnectedSession
    /\ transfers = NoTransfers
    /\ history = NoHistory
    /\ snap = EmptySnap
    /\ stream = <<>>
    /\ observer = FALSE
    /\ calls = EmptyBag
    /\ app = ConnectedApp
    /\ sse = NoSse
    /\ peer = InitPeer

\* Files (the user's: an empty one and one of MaxBytes bytes; the peer's: of
\* any size up to MaxBytes) are sent and received over the connected Session
\* until the peer closes the transport or the user disconnects, and a new
\* handshake may be started.
NextTransfer ==
    \/ \E n \in {0, MaxBytes} : SelectFile(n)
    \/ SendFile
    \/ \E c \in InFlight : ServeSendFile(c)
    \/ \E c \in InFlight : ServeSession(c)
    \/ \E c \in InFlight : Reply(c)
    \/ Poll
    \/ ProgressTimer
    \/ SendChunk
    \/ \E n \in 0..MaxBytes : OnMetadataFrame(n)
    \/ OnChunkFrame
    \/ \E e \in {"peerClose", "reset"} : BackendEvent(e)
    \/ Disconnect
    \/ ResetClick
    \/ CreateOffer

SpecTransfer == InitTransfer /\ [][NextTransfer]_vars

\* --------------------------------------------- specification: push stream
\* The push client once its room is connected: it has been told connecting,
\* then connected.
ConnectedSse ==
    pushHandleEvent(pushHandleEvent(onopen(InitSse),
                                    StateChanged("connecting")),
                    StateChanged("connected"))

InitPush ==
    /\ session = ConnectedSession
    /\ transfers = NoTransfers
    /\ history = NoHistory
    /\ snap = EmptySnap
    /\ stream = <<>>
    /\ observer = TRUE
    /\ calls = EmptyBag
    /\ app = destroy(InitApp)
    /\ sse = ConnectedSse
    /\ peer = InitPeer

\* The peer sends files and closes the transport while the push stream
\* delivers, drops and is reopened.
NextPush ==
    \/ \E n \in 0..MaxBytes : OnMetadataFrame(n)
    \/ OnChunkFrame
    \/ BackendEvent("peerClose")
    \/ StreamDeliver
    \/ SendHeartbeat
    \/ StreamError
    \/ Reconnect
    \/ StreamOpen
    \/ PushProgressTimer

SpecPush == InitPush /\ [][NextPush]_vars

\* ------------------------------------- specification: foreign messages
\* The stream carries a message the feed does not produce (a newer backend,
\* an intermediary that rewrites the stream).
StreamForeign(ev) ==
    /\ observer
    /\ Len(stream) < MaxStream
    /\ stream' = Append(stream, ev)
    /\ UNCHANGED <<session, transfers, history, snap, observer, calls,
                   clientVars>>

NextForeign ==
    \/ NextPush
    \/ \E ev \in Foreign : StreamForeign(ev)

SpecForeign == InitPush /\ [][NextForeign]_vars

\* --------------------------------------------------- specification: chat
\* The message the user sends next: m1 first, then m2.
NextMessage ==
    IF /\ TextsOf(app.chat, "sent") = <<>>
       /\ \A c \in InFlight : c.ep # "send_message"
    THEN "m1" ELSE "m2"

\* Over the connected Session the user sends m1, then m2; the peer sends
\* messages of its own; the poll client polls.
NextChat ==
    \/ SendMessage(NextMessage)
    \/ SendMessage("")
    \/ \E c \in InFlight : ServeSendMessage(c)
    \/ DrainFrame
    \/ \E c \in InFlight : Reply(c)
    \/ \E m \in Msgs : OnChatFrame(m)
    \/ Poll

SpecChat == InitTransfer /\ [][NextChat]_vars

\* ------------------------------------------- specification: chat failures
\* Over the connected Session the user types a message, an empty text or
\* blanks and sends it; the peer sends messages and may close the transport,
\* after which send_message is refused; a call or its response may be lost.
\* The user stops once the backend has logged MaxMsgs messages of theirs.
Say(m) ==
    /\ Len(TextsOf(history.log, "sent")) < MaxMsgs
    /\ SendMessage(m)

NextSay ==
    \/ \E m \in {"m1", "", "ws"} : Say(m)
    \/ \E c \in InFlight : ServeSendMessage(c)
    \/ \E c \in InFlight : Reply(c)
    \/ \E c \in InFlight : NetworkFail(c)
    \/ \E m \in Msgs : OnChatFrame(m)
    \/ BackendEvent("peerClose")
    \/ Poll

SpecSay == InitTransfer /\ [][NextSay]_vars

\* ------------------------------------------ specification: silent stall
\* The stream stalls silently: an intermediary stops forwarding, so that
\* neither events nor heartbeats reach the client any more, and no error is
\* raised: the EventSource stays open.
Stall ==
    /\ observer
    /\ sse.eventSource = "open"
    /\ observer' = FALSE
    /\ stream' = <<>>
    /\ UNCHANGED <<session, transfers, history, snap, calls, clientVars>>

NextStall ==
    \/ NextPush
    \/ Stall

\* Every timer the push client has set fires, every event the stream holds
\* is delivered and a stream that is connecting opens; the stream need not
\* raise an error.
FairStall ==
    /\ WF_vars(StreamDeliver)
    /\ WF_vars(Reconnect)
    /\ WF_vars(StreamOpen)
    /\ WF_vars(PushProgressTimer)
    /\ WF_vars(SendHeartbeat)

SpecStall == InitPush /\ [][NextStall]_vars /\ FairStall

\* ------------------------------------------- specification: both consumers
\* One backend whose feed is read in both modes: the poll client through
\* get_events, the push client through the event stream (which stays up).
\* The handshake of the offerer has reached connecting and both clients have
\* been told so.
ConnectingSession ==
    Transition(Transition(IdleSession, "initiate", ""),
               "remoteAnswer", Encode("answerer"))

ConnectingApp ==
    LET offered == [Call("create_offer", "", 0) EXCEPT
                       !.phase = "replied", !.status = "success"]
        answered == [Call("set_answer", "answer", 0) EXCEPT
                       !.phase = "replied", !.status = "success"]
        a1 == showLoading([InitApp EXCEPT !.isInitiator = TRUE])
        a2 == Continue(a1, offered)
        a3 == handleEvents(a2, PollReply(Transition(IdleSession, "initiate", ""),
                                         Record(EmptySnap, OfferCreated("offer"))))
        a4 == showLoading([a3 EXCEPT !.answerInput = "answer_nl"])
        a5 == Continue(a4, answered)
    IN  handleEvents(a5, PollReply(ConnectingSession, EmptySnap))

ConnectingSse ==
    showLoading(pushHandleEvent(onopen(InitSse), StateChanged("connecting")))

InitBoth ==
    /\ session = ConnectingSession
    /\ transfers = NoTransfers
    /\ history = NoHistory
    /\ snap = EmptySnap
    /\ stream = <<>>
    /\ observer = TRUE
    /\ calls = EmptyBag
    /\ app = ConnectingApp
    /\ sse = ConnectingSse
    /\ peer = InitPeer

\* The transport opens or fails, the peer sends files and closes, the storage
\* may fail; both clients consume what the feed gives them.
NextBoth ==
    \/ \E e \in {"transportOpen", "transportError", "peerClose"} :
          BackendEvent(e)
    \/ \E n \in 0..MaxBytes : OnMetadataFrame(n)
    \/ OnChunkFrame
    \/ StorageFail
    \/ Poll
    \/ ProgressTimer
    \/ StreamDeliver
    \/ PushProgressTimer

SpecBoth == InitBoth /\ [][NextBoth]_vars

\* ------------------------------------------------ specification: unload
\* destroy() of the poll client, which the page calls when it unloads.
AppDestroy ==
    /\ app.polling
    /\ app' = destroy(app)
    /\ UNCHANGED <<backendVars, calls, sse, peer>>

\* destroy() of the push client, which the page calls when it unloads.
SseDestroy ==
    /\ ~sse.destroyed
    /\ sse' = pushDestroy(sse)
    /\ observer' = FALSE
    /\ stream' = <<>>
    /\ UNCHANGED <<session, transfers, history, snap, calls, app, peer>>

\* Both clients consume the feed of one backend while the transport opens
\* and closes and the stream drops and is reopened; either client may be
\* destroyed at any moment.  Timers and calls that are pending at that
\* moment run to their end.
NextDestroy ==
    \/ \E e \in {"transportOpen", "peerClose"} : BackendEvent(e)
    \/ PollSend
    \/ \E i \in 1..MaxPolls : PollServe(i)
    \/ \E i \in 1..MaxPolls : PollReceive(i)
    \/ StreamDeliver
    \/ StreamError
    \/ Reconnect
    \/ StreamOpen
    \/ AppDestroy
    \/ SseDestroy

SpecDestroy == InitBoth /\ [][NextDestroy]_vars

\* ------------------------------------------- specification: controls
\* disconnect() of the push client, taken whole: the click, the call, the
\* backend's reply and the continuation, which resets the page on success
\* and does nothing on an error reply.
PushDisconnect ==
    /\ sse.disconnectBtn
    /\ ApplySession("disconnect", "")
    /\ sse' = IF TransitionError(session.state, "disconnect", "") = "none"
              THEN pushResetUI(showNotification(sse, "info"))
              ELSE sse
    /\ UNCHANGED <<calls, app, peer>>

\* The reset button of the push client: resetUI().
PushResetClick ==
    /\ sse.resetBtn
    /\ sse' = pushResetUI(sse)
    /\ UNCHANGED <<backendVars, calls, app, peer>>

\* Both clients follow one Session through connections that open, fail and
\* are closed by the peer or by the user, and through new exchanges; the
\* user disconnects and resets on either page.
NextControls ==
    \/ \E e \in {"transportOpen", "transportError", "peerClose", "reset"} :
          BackendEvent(e)
    \/ Poll
    \/ StreamDeliver
    \/ Disconnect
    \/ ResetClick
    \/ CreateOffer
    \/ SetAnswer("answer_nl")
    \/ \E c \in InFlight : ServeSession(c)
    \/ \E c \in InFlight : Reply(c)
    \/ PushDisconnect
    \/ PushResetClick

SpecControls == InitBoth /\ [][NextControls]_vars

\* ------------------------------------------------ specification: two peers
\* Scenario A: the offerer (this side, step by step) and the answerer (the
\* peer) go through the handshake; no transport error, no timeout.
NextLive ==
    \/ CreateOffer
    \/ PasteAnswer
    \/ Poll
    \/ \E c \in InFlight : ServeSession(c)
    \/ \E c \in InFlight : Reply(c)
    \/ LinkOpen
    \/ PeerCreateAnswer
    \/ PeerAnswerExported
    \/ PeerPoll
    \/ PeerLinkOpen

\* The poll runs every second on both sides (startPolling), the backends
\* serve every call they receive and answer it (no call waits for ever behind
\* the calls of another endpoint), the descriptors are exported and the
\* transport opens once both Sessions negotiate.
FairLive ==
    /\ WF_vars(Poll)
    /\ WF_vars(PeerPoll)
    /\ \A ep \in SessionEndpoints :
          /\ WF_vars(\E c \in InFlight : c.ep = ep /\ ServeSession(c))
          /\ WF_vars(\E c \in InFlight : c.ep = ep /\ Reply(c))
    /\ WF_vars(LinkOpen)
    /\ WF_vars(PeerAnswerExported)
    /\ WF_vars(PeerLinkOpen)

SpecLive == Init /\ [][NextLive]_vars /\ FairLive

\* -------------------------------------------- specification: slow polls
\* Over the connected Session the peer sends files and closes; the responses
\* of get_events may take longer than the polling interval.
NextPoll ==
    \/ PollSend
    \/ \E i \in 1..MaxPolls : PollServe(i)
    \/ \E i \in 1..MaxPolls : PollReceive(i)
    \/ \E n \in 0..MaxBytes : OnMetadataFrame(n)
    \/ OnChunkFrame
    \/ BackendEvent("peerClose")
    \/ ProgressTimer

SpecPoll == InitTransfer /\ [][NextPoll]_vars

\* ------------------------------------------- specification: multiplexer
\* Over the connected Session the user sends a file of MaxBytes bytes and
\* chat messages at the same time.
NextMux ==
    \/ SelectFile(MaxBytes)
    \/ SendFile
    \/ \E c \in InFlight : ServeSendFile(c)
    \/ SendMessage(NextMessage)
    \/ \E c \in InFlight : ServeSendMessage(c)
    \/ \E c \in InFlight : Reply(c)
    \/ SendChunk
    \/ DrainFrame
    \/ Poll
    \/ ProgressTimer

SpecMux == InitTransfer /\ [][NextMux]_vars

\* ------------------------------------------ specification: reconnecting
\* From the connected Session the user disconnects, possibly in the middle
\* of a file of the peer, and starts a new exchange with a peer that answers
\* it; the transport of the new exchange opens.
NextAgain ==
    \/ OnMetadataFrame(MaxBytes)
    \/ Disconnect
    \/ CreateOffer
    \/ SetAnswer("answer_nl")
    \/ \E c \in InFlight : ServeSession(c)
    \/ \E c \in InFlight : Reply(c)
    \/ Poll
    \/ BackendEvent("transportOpen")

\* The poll runs every second, the backend serves and answers every call,
\* and the transport opens once negotiated.
FairAgain ==
    /\ WF_vars(Poll)
    /\ \A ep \in SessionEndpoints :
          /\ WF_vars(\E c \in InFlight : c.ep = ep /\ ServeSession(c))
          /\ WF_vars(\E c \in InFlight : c.ep = ep /\ Reply(c))
    /\ WF_vars(BackendEvent("transportOpen"))

SpecAgain == InitTransfer /\ [][NextAgain]_vars /\ FairAgain

\* ------------------------------------- specification: export and import
\* What reaches the other user of a text handed over a plain-text medium:
\* the text, with or without a line end appended.
Handed(t) == {t, WithNewline(t)}

\* A file that is no text file.
OtherFile == [name |-> "photo.png", content |-> "junk", type |-> "image/png"]

\* The files the other user may upload when given the file f: f, as saved or
\* with a line end appended, or by mistake a file that is no text file.
Uploads(f) == {[f EXCEPT !.content = t] : t \in Handed(f.content)} \cup {OtherFile}

\* The Copy and Download buttons of the signaling data, on either side.
CopyData ==
    /\ app.signalingData
    /\ app' = copySignalingData(app)
    /\ UNCHANGED <<backendVars, calls, sse, peer>>

DownloadData ==
    /\ app.signalingData
    /\ app' = downloadSignalingData(app)
    /\ UNCHANGED <<backendVars, calls, sse, peer>>

PeerCopyData ==
    /\ peer.app.signalingData
    /\ peer' = [peer EXCEPT !.app = copySignalingData(@)]
    /\ UNCHANGED <<backendVars, calls, app, sse>>

PeerDownloadData ==
    /\ peer.app.signalingData
    /\ peer' = [peer EXCEPT !.app = downloadSignalingData(@)]
    /\ UNCHANGED <<backendVars, calls, app, sse>>

\* The peer's user uploads the offer file received, or pastes the offer
\* received, into the offer box.
PeerUploadOffer ==
    /\ app.download # NoFile
    /\ ~peer.app.transferSection
    /\ \E f \in Uploads(app.download) :
          peer' = [peer EXCEPT !.app = handleOfferFileUpload(@, f)]
    /\ UNCHANGED <<backendVars, calls, app, sse>>

PeerPasteOffer ==
    /\ app.clipboard # ""
    /\ ~peer.app.transferSection
    /\ \E t \in Handed(app.clipboard) :
          peer' = [peer EXCEPT !.app.offerInput = t]
    /\ UNCHANGED <<backendVars, calls, app, sse>>

\* The peer's user clicks Create Answer on what the offer box holds:
\* createAnswer() and its call.
PeerCreateAnswerLoaded ==
    /\ ~peer.app.transferSection
    /\ LET a == peer.app
           offer == Trim(a.offerInput)
           c == Replied(Call("create_answer", offer, 0),
                        TransitionError(peer.session.state, "accept", offer))
       IN  IF offer = ""
           THEN peer' = [peer EXCEPT !.app = showNotification(a, "warning")]
           ELSE peer' = [PeerApply(peer, "accept", offer) EXCEPT
                           !.app = Continue(
                                     showLoading([a EXCEPT !.isInitiator = FALSE]),
                                     c)]
    /\ UNCHANGED <<backendVars, calls, app, sse>>

\* The user uploads the answer file received, or pastes the answer received,
\* into the answer box, and clicks Connect.
UploadAnswer ==
    /\ peer.app.download # NoFile
    /\ ConnectionSection
    /\ app.answerSection
    /\ \E f \in Uploads(peer.app.download) :
          app' = handleAnswerFileUpload(app, f)
    /\ UNCHANGED <<backendVars, calls, sse, peer>>

PasteAnswerText ==
    /\ peer.app.clipboard # ""
    /\ ConnectionSection
    /\ app.answerSection
    /\ \E t \in Handed(peer.app.clipboard) :
          app' = [app EXCEPT !.answerInput = t]
    /\ UNCHANGED <<backendVars, calls, sse, peer>>

Connect == SetAnswer(app.answerInput)

\* Scenario A with the descriptors exported and imported by the buttons of
\* the page.
NextExchange ==
    \/ CreateOffer
    \/ Poll
    \/ \E c \in InFlight : ServeSession(c)
    \/ \E c \in InFlight : Reply(c)
    \/ CopyData
    \/ DownloadData
    \/ PeerUploadOffer
    \/ PeerPasteOffer
    \/ PeerCreateAnswerLoaded
    \/ PeerAnswerExported
    \/ PeerPoll
    \/ PeerCopyData
    \/ PeerDownloadData
    \/ UploadAnswer
    \/ PasteAnswerText
    \/ Connect
    \/ LinkOpen
    \/ PeerLinkOpen

SpecExchange == Init /\ [][NextExchange]_vars

\* ------------------------------------------- specification: pasted texts
\* The handshake with whatever text the user pastes into the offer and the
\* answer box.
NextPaste ==
    \/ CreateOffer
    \/ \E t \in Texts : CreateAnswer(t)
    \/ \E t \in Texts : SetAnswer(t)
    \/ \E c \in InFlight : ServeSession(c)
    \/ \E c \in InFlight : Reply(c)
    \/ Poll

SpecPaste == Init /\ [][NextPaste]_vars

\* ------------------------------------- specification: two peers, timeout
\* The negotiation of the transport is bounded by a timeout: in connecting
\* the transport reports an error when it has not opened in time.
Timeout ==
    /\ session.state = "connecting"
    /\ ApplySession("transportError", "")
    /\ UNCHANGED <<calls, clientVars>>

PeerTimeout ==
    /\ peer.session.state = "connecting"
    /\ peer' = PeerApply(peer, "transportError", "")
    /\ UNCHANGED <<backendVars, calls, app, sse>>

\* Scenario A with the timeout: the transport opens or the timeout fires.
NextTimeout ==
    \/ NextLive
    \/ Timeout
    \/ PeerTimeout

\* As FairLive, but the transport need not open: in connecting it opens or
\* the timeout fires.
FairTimeout ==
    /\ WF_vars(Poll)
    /\ WF_vars(PeerPoll)
    /\ \A ep \in SessionEndpoints :
          /\ WF_vars(\E c \in InFlight : c.ep = ep /\ ServeSession(c))
          /\ WF_vars(\E c \in InFlight : c.ep = ep /\ Reply(c))
    /\ WF_vars(LinkOpen \/ Timeout)
    /\ WF_vars(PeerAnswerExported)
    /\ WF_vars(PeerLinkOpen \/ PeerTimeout)

SpecTimeout == Init /\ [][NextTimeout]_vars /\ FairTimeout

\* ------------------------------------------------------------------ claims
\* The pairs <<from, to>> of the rows of the table of section 4.2.
TableSteps ==
    { <<"idle", "offer_pending">>, <<"idle", "answer_pending">>,
      <<"offer_pending", "connecting">>, <<"answer_pending", "connecting">>,
      <<"connecting", "connected">>, <<"connecting", "failed">>,
      <<"connected", "closed">>, <<"connected", "idle">>,
      <<"failed", "idle">>, <<"closed", "idle">> }

\* The <<state, event>> pairs of the rows of the table of section 4.2.
TablePairs ==
    { <<"idle", "initiate">>, <<"idle", "accept">>,
      <<"offer_pending", "remoteAnswer">>,
      <<"answer_pending", "answerExported">>,
      <<"connecting", "transportOpen">>, <<"connecting", "transportError">>,
      <<"connected", "peerClose">>, <<"connected", "disconnect">>,
      <<"failed", "reset">>, <<"closed", "reset">> }

\* The call c is served in this step, with the reply d.
Served(c, d) ==
    /\ c \in InFlight
    /\ c.phase = "sent"
    /\ d = [c EXCEPT !.phase = "replied", !.status = d.status,
                     !.message = d.message]
    /\ calls' = Replace(c, d)
    /\ calls' # calls

\* C1: an event that is no row of the transition table for the Session's
\* state fails with InvalidStateError and leaves the Session as it was, so the
\* Session's state changes only along the rows of the table.  Stated of every
\* state the Session reaches and every event, of every call the backend
\* serves, and of every step.
C1_InvalidEventRejected ==
    /\ [](\A e \in SessionEvents, t \in {Trim(x) : x \in Texts} :
             <<session.state, e>> \notin TablePairs =>
                 /\ TransitionError(session.state, e, t) = "InvalidStateError"
                 /\ Transition(session, e, t) = session)
    /\ [][
        /\ \A c \in InFlight : \A d \in BagToSet(calls') :
             ( /\ Served(c, d)
               /\ c.ep \in SessionEndpoints
               /\ <<session.state, EndpointEvent(c.ep)>> \notin TablePairs )
             => /\ d.status = "error"
                /\ d.message = "InvalidStateError"
                /\ session' = session
        /\ session'.state # session.state =>
             <<session.state, session'.state>> \in TableSteps
      ]_vars

\* A call was rejected with InvalidStateError by a Session that had left idle.
C1_Witness ==
    \E c \in InFlight :
        /\ c.phase = "replied"
        /\ c.message = "InvalidStateError"
        /\ session.state = "connected"

\* C3: two create_offer calls, the second issued while the first is in
\* flight, give one descriptor: the Session never holds more than one, and a
\* create_offer served by a Session that has left idle is rejected with
\* InvalidStateError, changes nothing of the Session and puts no offer_created
\* on the feed.
C3_DoubleOfferOneDescriptor ==
    [][ /\ session.descriptors <= 1
        /\ session'.descriptors <= 1
        /\ \A c \in InFlight : \A d \in BagToSet(calls') :
             ( /\ Served(c, d)
               /\ c.ep = "create_offer"
               /\ session.state # "idle" )
             => /\ d.message = "InvalidStateError"
                /\ session' = session
                /\ snap' = snap
                /\ stream' = stream
      ]_vars

\* Both calls of a double click have been served: one made the offer, the
\* other was rejected.
C3_Witness ==
    \E c, d \in InFlight :
        /\ c.ep = "create_offer" /\ d.ep = "create_offer"
        /\ c.phase = "replied" /\ d.phase = "replied"
        /\ c.status = "success"
        /\ d.message = "InvalidStateError"
        /\ session.state = "offer_pending"
        /\ session.descriptors = 1

\* C5 (as claimed): with no call in flight, the isInitiator flag matches the
\* kind of the descriptor on display, so that downloadSignalingData names an
\* offer connection_offer.txt and an answer connection_answer.txt.
C5_RoleMatchesDescriptor ==
    (calls = EmptyBag /\ app.signalingData) =>
        (downloadFilename(app) =
            IF app.signalingTitle = "Connection Offer"
            THEN "connection_offer.txt" ELSE "connection_answer.txt")

Issued(c) ==
    /\ c.phase = "sent"
    /\ calls' = calls (+) SetToBag({c})

\* The continuation of the call c runs in this step.
Resumed(c) ==
    /\ c \in InFlight
    /\ c.phase = "replied"
    /\ calls' = calls (-) SetToBag({c})

\* C6 (as claimed): a send_file call made while a Transfer is active fails
\* with AlreadyTransferringError, creates no Transfer, and leaves the progress
\* of the active Transfer as it was: its bytesMoved, the progress on the feed
\* and the progress the page displays (value and card) are the same after the
\* click, after the rejection and after the call's continuation as before.
C6_RejectedSendLeavesProgress ==
    [][ /\ \A c \in InFlight : \A d \in BagToSet(calls') :
             (Served(c, d) /\ c.ep = "send_file" /\ transfers.active # {})
             => /\ d.message = "AlreadyTransferringError"
                /\ transfers' = transfers
                /\ snap' = snap
        /\ \A c \in BagToSet(calls') :
             (Issued(c) /\ c.ep = "send_file" /\ transfers.active # {})
             => /\ app'.progress = app.progress
                /\ app'.progressCard = app.progressCard
        /\ \A c \in InFlight :
             ( /\ Resumed(c)
               /\ c.ep = "send_file"
               /\ c.message = "AlreadyTransferringError"
               /\ transfers.active # {} )
             => /\ app'.progress = app.progress
                /\ app'.progressCard = app.progressCard
      ]_vars

\* C7 (as claimed): at most one Transfer, outbound and inbound counted
\* together, is active.
C7_OneTransferOverall == Cardinality(transfers.active) <= 1

\* C8 (as claimed): every Transfer has 0 <= bytesMoved <= totalBytes, and
\* the progress observed for a Transfer never decreases while it is active:
\* neither on the feed nor on the page.  Feed and page are looked at during
\* the first Transfer of a run, when every value reported or displayed so far
\* is a value of that Transfer.
C8_ProgressNeverDecreases ==
    /\ [](\A t \in transfers.active :
             0 <= t.bytesMoved /\ t.bytesMoved <= t.totalBytes)
    /\ [][ \A t \in transfers.active : \A u \in transfers'.active :
             t.id = u.id
             => /\ u.bytesMoved >= t.bytesMoved
                /\ (transfers'.started = 1 /\ snap.has_progress
                       /\ snap'.has_progress) =>
                       snap'.progress >= snap.progress
                /\ transfers'.started = 1 => app'.progress >= app.progress
      ]_vars

\* C9: the transport closes while an inbound Transfer is incomplete.  The
\* write handle is released (handles are held by the active inbound
\* Transfers and by no other), no file_received is ever put on the feed for
\* the aborted Transfer, and an error is.  The client, on polling the error,
\* hides the progress card, and its list of received files never holds the
\* aborted Transfer.
C9_AbortedInboundTransfer ==
    /\ [](/\ transfers.handles = {t.id : t \in Active("inbound")}
          /\ history.aborted \cap history.received = {}
          /\ snap.file_received \notin history.aborted
          /\ \A i \in 1..Len(app.received) :
                app.received[i] \in history.received \ history.aborted)
    /\ [][
        /\ ( /\ session.state = "connected"
             /\ session'.state # "connected"
             /\ \E t \in Active("inbound") : t.bytesMoved < t.totalBytes )
           => /\ transfers'.handles = {}
              /\ transfers'.active = {}
              /\ snap'.error # ""
              /\ snap'.file_received = snap.file_received
              /\ {t.id : t \in Active("inbound")} \subseteq history'.aborted
        /\ (snap.error # "" /\ snap'.error = "") =>
              /\ ~app'.progressCard
              /\ app'.notification = "error"
              /\ Len(app'.received) =
                    Len(app.received) + (IF snap.file_received # 0 THEN 1 ELSE 0)
      ]_vars

\* The peer closed the transport in the middle of the only Transfer, an
\* inbound one; the client has polled the error and lists no received file.
C9_Witness ==
    /\ session.state = "closed"
    /\ transfers.started = 1
    /\ history.aborted = {1}
    /\ app.selectedFileData = -1
    /\ app.connectionState = "closed"
    /\ snap.error = ""
    /\ app.notification = "error"
    /\ ~app.progressCard
    /\ app.received = <<>>


\* C10 (as claimed): no file_received and no closed state is lost to the
\* consumer of the push stream: once the stream is open and has delivered all
\* it carries, the client lists every file the backend has received and, if
\* the peer has closed the Session, shows the closed state.
C10_NothingLostOnPush ==
    (observer /\ sse.eventSource = "open" /\ stream = <<>>) =>
        /\ \A id \in history.received :
               \E i \in 1..Len(sse.received) : sse.received[i] = id
        /\ session.state = "closed" => sse.connectionState = "closed"


\* The page a shows the connected state: the state polled and the transfer
\* section displayed.
ObservesConnected(a) == a.connectionState = "connected" /\ a.transferSection

\* The set_answer call of scenario A is in flight: the offerer has its offer,
\* the answerer has made its answer from it.
SetAnswerCalled ==
    /\ session.state = "offer_pending"
    /\ peer.session.role = "answerer"
    /\ \E c \in InFlight :
          c.ep = "set_answer" /\ c.phase = "sent" /\ c.arg = Encode("answerer")

\* C2: scenario A.  Once the offerer has called create_offer, the answerer
\* create_answer with the offer, and the offerer set_answer with the answer,
\* both pages eventually show the connected state.
C2_HandshakeCompletes ==
    SetAnswerCalled ~> (ObservesConnected(app) /\ ObservesConnected(peer.app))

\* Both pages show the connected state, the offerer as initiator.
C2_Witness ==
    /\ ObservesConnected(app)
    /\ ObservesConnected(peer.app)
    /\ session.role = "offerer"
    /\ peer.session.role = "answerer"


\* C11: disconnect called twice in a row.  The call served in connected
\* takes the Session to idle and tears the Transfers down; a disconnect served
\* in any other state, the second of the two in idle, is answered
\* InvalidStateError and changes nothing of the backend: the Session stays
\* what it was, nothing is torn down again, nothing is put on the feed.  The
\* client does nothing on the non-success reply: the page stays as it is.
C11_SecondDisconnectHarmless ==
    [][ /\ \A c \in InFlight : \A d \in BagToSet(calls') :
             (Served(c, d) /\ c.ep = "disconnect") =>
                IF session.state = "connected"
                THEN /\ d.status = "success"
                     /\ session' = IdleSession
                     /\ transfers'.active = {} /\ transfers'.handles = {}
                ELSE /\ d.status = "error"
                     /\ d.message = "InvalidStateError"
                     /\ session' = session
                     /\ transfers' = transfers
                     /\ history' = history
                     /\ snap' = snap
                     /\ stream' = stream
        /\ \A c \in InFlight :
             (Resumed(c) /\ c.ep = "disconnect" /\ c.status = "error")
             => app' = app
      ]_vars

\* Both calls of a double click on Disconnect have been served: the first
\* took the Session to idle, the second was rejected, and the Session is idle.
C11_Witness ==
    /\ session = IdleSession
    /\ \E c, d \in InFlight :
          /\ c.ep = "disconnect" /\ d.ep = "disconnect"
          /\ c.phase = "replied" /\ d.phase = "replied"
          /\ c.status = "success"
          /\ d.message = "InvalidStateError"


\* The page shows a reset Session: disconnected, the reset control hidden,
\* the chat log empty.
ShowsReset(a) ==
    a.connectionState = "disconnected" /\ ~a.resetBtn /\ a.chat = <<>>

\* C12 (as claimed): a reset applied in failed or closed takes the Session
\* to idle with no Transfer left; the reset control leaves the page
\* disconnected with the control hidden and the chat log empty; and with the
\* Session idle and nothing new on the feed, the page still shows that after
\* its next poll.
C12_ResetStaysReset ==
    [][ /\ ( /\ session.state \in {"failed", "closed"}
             /\ session'.state = "idle" )
           => /\ session' = IdleSession
              /\ transfers'.active = {} /\ transfers'.handles = {}
        /\ (app.resetBtn /\ app' = resetUI(app) /\ app' # app) =>
              /\ ShowsReset(app')
              /\ (session'.state = "idle" /\ snap' = EmptySnap) =>
                    ShowsReset(handleEvents(app', PollReply(session', snap')))
      ]_vars


PollNotification(events) ==
    IF events.error # "" \/ events.connection_state = "failed" THEN "error"
    ELSE IF events.file_received # 0 THEN "success"
    ELSE "warning"

\* C14: every transition of the Session into failed or closed and every
\* TransportError or StorageError is put on the feed (a connection state
\* change on the stream and in the state the poll reads, an error event for
\* the errors); a poll that reads failed or closed ends with the reset control
\* shown, the loading overlay hidden and a notification, and the next poll
\* shows the notification of the state again; the push client, on the state
\* change event, shows its notification and the reset control.
C14_FailuresSurfaced ==
    [][ /\ ( session'.state \in {"failed", "closed"}
             /\ session'.state # session.state )
           => /\ Len(stream') > Len(stream)
              /\ stream'[Len(stream')] = StateChanged(session'.state)
              /\ PollReply(session', snap').connection_state = session'.state
              /\ session'.state = "failed"
                   => /\ snap'.error = "TransportError"
                      /\ stream'[Len(stream') - 1] = ErrorEvent("TransportError")
        /\ ( history'.aborted # history.aborted /\ session' = session )
           => /\ snap'.error = "StorageError"
              /\ stream' = Append(stream, ErrorEvent("StorageError"))
        /\ ( /\ session.state \in {"failed", "closed"}
             /\ app' = handleEvents(app, PollReply(session, snap))
             /\ snap' = EmptySnap
             /\ UNCHANGED <<session, stream, sse>> )
           => /\ app'.connectionState = session.state
              /\ app'.resetBtn
              /\ ~app'.loading
              /\ ~app'.disconnectBtn
              /\ app'.notification = PollNotification(PollReply(session, snap))
              /\ LET next == handleEvents(app', PollReply(session', snap'))
                 IN  /\ next.resetBtn
                     /\ next.notification =
                          IF session.state = "failed" THEN "error" ELSE "warning"
        /\ ( /\ stream # <<>>
             /\ stream' = Tail(stream)
             /\ Head(stream).type = "connection_state_changed"
             /\ Head(stream).state \in {"failed", "closed"} )
           => /\ sse'.connectionState = Head(stream).state
              /\ sse'.resetBtn
              /\ ~sse'.disconnectBtn
              /\ sse'.notification =
                   IF Head(stream).state = "failed" THEN "error" ELSE "warning"
        /\ ( /\ stream # <<>>
             /\ stream' = Tail(stream)
             /\ Head(stream).type = "error" )
           => sse'.notification = "error" /\ ~sse'.loading
      ]_vars

\* The transport has failed and both clients have been told: each shows the
\* failed state, its error notification and the reset control.
C14_Witness ==
    /\ session.state = "failed"
    /\ stream = <<>>
    /\ snap = EmptySnap
    /\ app.connectionState = "failed"
    /\ app.resetBtn /\ app.notification = "error" /\ ~app.loading
    /\ sse.connectionState = "failed"
    /\ sse.resetBtn /\ sse.notification = "error" /\ ~sse.loading


\* C15 (as claimed): a dropped push connection is retried, without a
\* notification, after a delay that grows with consecutive failures: when the
\* stream fails, a retry is pending and the notification is as it was, and
\* when it is a retry that failed (the new stream was still connecting) the
\* delay of the next retry is longer than that of the one that failed.
C15_ReconnectWithBackoff ==
    [][ (sse.eventSource # "closed" /\ sse'.eventSource = "closed")
        => /\ sse'.reconnecting
           /\ sse'.notification = sse.notification
           /\ (sse.eventSource = "connecting" /\ sse.retryDelay > 0)
                => sse'.retryDelay > sse.retryDelay
      ]_vars


\* Both clients have consumed all the feed has given: the stream is empty and
\* the poll client has polled since the last occurrence.
Consumed ==
    /\ stream = <<>>
    /\ snap = EmptySnap
    /\ app.connectionState = ConnectionState(session.state)

\* The entries of a list, whatever their order and number.
Entries(list) == {list[i] : i \in 1..Len(list)}

\* C16 (as claimed): the two consumption modes are equivalent to the
\* consumer: once both clients have consumed the same occurrences they show
\* the same connection state, the same visibility of the transfer section, of
\* the disconnect control and of the reset control, and the same received
\* files.
C16_ModesEquivalent ==
    Consumed =>
        /\ sse.connectionState = app.connectionState
        /\ sse.transferSection = app.transferSection
        /\ sse.disconnectBtn = app.disconnectBtn
        /\ sse.resetBtn = app.resetBtn
        /\ Entries(sse.received) = Entries(app.received)


\* C17 (as claimed): chat messages appear in the order sent and none is
\* dropped: once the poll client has polled what the feed holds, the received
\* messages of its chat log are those the backend received from the peer, in
\* that order; and its sent messages are in the order the user sent them, m1
\* before m2.
C17_ChatInOrder ==
    /\ snap.message = ""
         => TextsOf(app.chat, "received") = TextsOf(history.log, "received")
    /\ TextsOf(app.chat, "sent") \in {<<>>, <<"m1">>, <<"m1", "m2">>}


\* C18: scenario B, the empty file.  Percent never divides by zero and stays
\* within 0..100, and so does every progress on the feed.  When send_file is
\* served for an empty file, the first (and only) Progress of that Transfer
\* reports 100 and nothing is left active.  When the metadata frame of an
\* empty file arrives, that one step, with no chunk frame, reports progress
\* 100 and file_received, records the file as received and opens no write
\* handle.
C18_EmptyFile ==
    /\ [](/\ \A total \in 0..MaxBytes : \A moved \in 0..total :
                Percent(moved, total) \in 0..100
          /\ Percent(0, 0) = 100
          /\ snap.progress \in 0..100)
    /\ [][ /\ \A c \in InFlight : \A d \in BagToSet(calls') :
               ( /\ Served(c, d)
                 /\ c.ep = "send_file"
                 /\ c.size = 0
                 /\ d.status = "success" )
               => /\ snap'.has_progress
                  /\ snap'.progress = 100
                  /\ snap'.is_sending
                  /\ transfers'.started = transfers.started + 1
                  /\ transfers'.active = transfers.active
          /\ ( /\ calls' = calls
               /\ transfers'.started = transfers.started + 1
               /\ transfers'.active = transfers.active )
             => /\ snap'.has_progress
                /\ snap'.progress = 100
                /\ ~snap'.is_sending
                /\ snap'.file_received = transfers'.started
                /\ history'.received =
                      history.received \cup {transfers'.started}
                /\ transfers'.handles = transfers.handles
                /\ LET next == handleEvents(app', PollReply(session', snap'))
                   IN  /\ next.progress = 100
                       /\ next.received # <<>>
                       /\ next.received[1] = transfers'.started
      ]_vars

\* The user has sent an empty file, whose only Progress reported 100, and an
\* empty file of the peer has been received and polled: it is in the list.
C18_Witness ==
    /\ session.state = "connected"
    /\ app.selectedFileData = 0
    /\ transfers.started = 2
    /\ transfers.active = {}
    /\ transfers.handles = {}
    /\ history.received = {2}
    /\ history.aborted = {}
    /\ app.received = <<2>>
    /\ app.progress = 100
    /\ \E c \in InFlight :
          c.ep = "send_file" /\ c.size = 0 /\ c.status = "success"


\* C19: a Session in connecting does not stay there: it goes on to connected
\* or to failed, on either side; and a loading overlay that is shown is
\* eventually hidden, on either side.
C19_ConnectingEnds ==
    /\ (session.state = "connecting")
          ~> (session.state \in {"connected", "failed"})
    /\ (peer.session.state = "connecting")
          ~> (peer.session.state \in {"connected", "failed"})
    /\ app.loading ~> ~app.loading
    /\ peer.app.loading ~> ~peer.app.loading

\* The timeout has fired after set_answer succeeded (the answer field is
\* cleared and the answer section hidden): the poll client has polled failed
\* and its overlay is hidden.
C19_Witness ==
    /\ session.state = "failed"
    /\ app.connectionState = "failed"
    /\ app.isInitiator
    /\ app.signalingData
    /\ ~app.answerSection
    /\ ~app.loading
    /\ app.notification = "error"


\* C20: a remote descriptor that is empty, not of the expected schema or
\* beyond the maximum size is rejected and leaves the Session as it was:
\* accept fails with DecodeError in idle, remoteAnswer with ProtocolError in
\* offer_pending, for every such text and for every create_answer and
\* set_answer call that is served; the rejected call puts nothing on the feed.
\* The client never sends an empty or whitespace-only offer or answer: what it
\* sends is trimmed and not empty.
C20_BadDescriptorRejected ==
    /\ [](/\ \A t \in Texts :
                /\ Decode(t) # "offerer"
                     => /\ TransitionError("idle", "accept", t) = "DecodeError"
                        /\ Transition(IdleSession, "accept", t) = IdleSession
                /\ Decode(t) # "answerer"
                     => /\ TransitionError("offer_pending", "remoteAnswer", t)
                             \in {"DecodeError", "ProtocolError"}
                        /\ Transition(Transition(IdleSession, "initiate", ""),
                                      "remoteAnswer", t)
                             = Transition(IdleSession, "initiate", "")
          /\ \A c \in InFlight :
                c.ep \in {"create_answer", "set_answer"}
                => c.arg # "" /\ Trim(c.arg) = c.arg)
    /\ [][ \A c \in InFlight : \A d \in BagToSet(calls') :
             /\ ( /\ Served(c, d)
                  /\ c.ep = "create_answer"
                  /\ session.state = "idle"
                  /\ Decode(c.arg) # "offerer" )
                => /\ d.status = "error"
                   /\ d.message = "DecodeError"
                   /\ session' = session
                   /\ snap' = snap
             /\ ( /\ Served(c, d)
                  /\ c.ep = "set_answer"
                  /\ session.state = "offer_pending"
                  /\ Decode(c.arg) # "answerer" )
                => /\ d.status = "error"
                   /\ d.message \in {"DecodeError", "ProtocolError"}
                   /\ session' = session
                   /\ snap' = snap
      ]_vars

\* An offer beyond the maximum size has been rejected with DecodeError and
\* the Session is still idle.
C20_Witness ==
    /\ session = IdleSession
    /\ \E c \in InFlight :
          /\ c.ep = "create_answer"
          /\ c.arg = "oversize"
          /\ c.phase = "replied"
          /\ c.status = "error"
          /\ c.message = "DecodeError"


\* The descriptors.
Descriptors == {"offerer", "answerer"}

PostDisconnect ==
    /\ session = IdleSession
    /\ history.aborted # {}
    /\ calls = EmptyBag

\* After a disconnect the new exchange has come to its set_answer call, and
\* no disconnect call of the user is left to be served.
SecondAnswerCalled ==
    /\ session.state = "offer_pending"
    /\ history.aborted # {}
    /\ \A c \in InFlight : c.ep # "disconnect"
    /\ \E c \in InFlight :
          c.ep = "set_answer" /\ c.phase = "sent" /\ c.arg = Encode("answerer")

\* C22: after a local disconnect the Session is the idle Session of a fresh
\* process and the page offers the connection section again, so that a new
\* exchange can be started; and the new exchange, once its set_answer is
\* called, leads to the connected state on the page, with no restart.
C22_ReconnectAfterDisconnect ==
    /\ [](PostDisconnect =>
            /\ ENABLED CreateOffer
            /\ TransitionError(session.state, "initiate", "") = "none"
            /\ TransitionError(session.state, "accept", Encode("offerer")) = "none")
    /\ SecondAnswerCalled ~> ObservesConnected(app)

\* Connected again: a Transfer was aborted by the disconnect, and the page
\* shows the connected state of the new exchange.
C22_Witness ==
    /\ history.aborted # {}
    /\ transfers.active = {}
    /\ session.state = "connected"
    /\ session.role = "offerer"
    /\ ObservesConnected(app)
    /\ calls = EmptyBag


\* C23: a heartbeat is ignored by the push client: onmessage leaves the
\* client as it is, and the step that delivers a heartbeat (the stream stays
\* open and loses its first event, a heartbeat) changes nothing but the stream.
C23_HeartbeatIgnored ==
    /\ [](onmessage(sse, Heartbeat) = sse)
    /\ [][ ( /\ stream # <<>>
             /\ Head(stream) = Heartbeat
             /\ stream' = Tail(stream)
             /\ sse'.eventSource = "open" )
           => /\ sse' = sse
              /\ app' = app
              /\ UNCHANGED <<session, transfers, history, snap, observer>>
      ]_vars

\* A heartbeat is about to be delivered to a client that shows the closed
\* state, its notification and a received file.
C23_Witness ==
    /\ observer
    /\ sse.eventSource = "open"
    /\ stream # <<>>
    /\ Head(stream) = Heartbeat
    /\ sse.connectionState = "closed"
    /\ sse.notification = "warning"
    /\ sse.received # <<>>


\* C24: a chat frame enqueued during a Transfer is not held back by the file:
\* no pending frame ever waits for more than one file chunk, a pending frame
\* can always be transmitted next, and while a frame that has waited for one
\* chunk is pending no further chunk is sent.
C24_ChatNotStarved ==
    /\ \A i \in 1..Len(transfers.outbox) : transfers.outbox[i].chunks <= 1
    /\ transfers.outbox # <<>> => ENABLED DrainFrame
    /\ ~Drained(transfers.outbox) => ~ENABLED SendChunk

\* A chat frame has waited for one chunk of a file that is not through: the
\* frame goes next, the rest of the file after it.
C24_Witness ==
    /\ transfers.outbox # <<>>
    /\ transfers.outbox[1].chunks = 1
    /\ \E t \in Active("outbound") : t.bytesMoved = 1 /\ t.totalBytes = MaxBytes


\* The stream is open at the client and delivers nothing any more.
Stalled == sse.eventSource = "open" /\ ~observer

\* C25 (as claimed): the push client recovers from a silent stall: a stream
\* that has stalled is eventually closed and opened anew.
C25_StallRecovered == Stalled ~> ~Stalled


C27_PollsInOrder ==
    [][ /\ Len(app'.polls) < Len(app.polls) => app'.polls = Tail(app.polls)
        /\ app.connectionState = "closed" => app'.connectionState = "closed"
      ]_vars


\* C28 (as claimed): in both clients the transfer section is displayed only
\* while the connection state the client knows is connected.
C28_TransferOnlyConnected ==
    /\ app.connectionState # "connected" => ~app.transferSection
    /\ sse.connectionState # "connected" => ~sse.transferSection


\* C29 (as claimed): a hide timer set when an earlier Transfer reached 100 %
\* never hides the card of a later Transfer: when a timer fires while the
\* card is displayed with a progress below 100, the card stays.
C29_CardOutlivesStaleTimer ==
    [][ ( /\ app.progressCard
          /\ app.progress < 100
          /\ app'.hideTimers < app.hideTimers )
        => app'.progressCard
      ]_vars


\* C30: the push client has at most one event stream that is not closed at
\* any time.  A stream error closes the current stream (none is left) and
\* sets the one timer that reopens it; a stream is only created when none is
\* left, and creating it uses up the timer.
C30_OneStream ==
    /\ [](sse.streams <= 1)
    /\ [][ /\ (~sse.reconnecting /\ sse'.reconnecting)
               => /\ sse'.streams = 0
                  /\ sse'.eventSource = "closed"
          /\ (sse'.streams > sse.streams)
               => /\ sse.streams = 0
                  /\ sse.reconnecting /\ ~sse'.reconnecting
        ]_vars

\* The stream dropped, the timer of onerror reopened it, and the new stream
\* is established: it is the only one.
C30_Witness ==
    /\ sse.retryDelay = RetryDelay
    /\ ~sse.reconnecting
    /\ sse.eventSource = "open"
    /\ sse.streams = 1


\* C31 (as claimed): after destroy() no event delivery remains active: the
\* push client creates no event stream once destroy() has run, and the poll
\* client issues no get_events call once its destroy() has run.
C31_NoDeliveryAfterDestroy ==
    [][ /\ sse.destroyed => sse'.streams <= sse.streams
        /\ ~app.polling => Len(app'.polls) <= Len(app.polls)
      ]_vars


\* C32 (as claimed): when a control call ends with a reply of status error
\* or with a network failure, the user is shown an error notification and
\* nothing of the success side happens: the page is not reset, the chat log
\* gets no entry and no input is cleared.
C32_FailedCallNotified ==
    [][ \A c \in InFlight :
          ( /\ calls' = calls (-) SetToBag({c})
            /\ ~(c.phase = "replied" /\ c.status = "success") )
          => /\ app'.notification = "error"
             /\ app'.connectionState = app.connectionState
             /\ app'.transferSection = app.transferSection
             /\ app'.chat = app.chat
             /\ app'.offerInput = app.offerInput
             /\ app'.answerInput = app.answerInput
             /\ app'.messageInput = app.messageInput
      ]_vars


\* The entry of the chat log for the message of call c.
SentEntry(c) == [text |-> c.arg, type |-> "sent"]

\* C33: the chat log gets an entry of direction sent exactly when a
\* send_message call returns success, and the entry is the message of that
\* call; when the call fails (error reply, or call or response lost) the chat
\* log and the input field are left as they are; and no send_message call is
\* ever made for a text that is empty once trimmed.
C33_SentIffSuccess ==
    /\ [](\A c \in InFlight : c.ep = "send_message" => c.arg # "")
    /\ [][
          /\ (TextsOf(app'.chat, "sent") # TextsOf(app.chat, "sent"))
               => \E c \in InFlight :
                     /\ c.ep = "send_message"
                     /\ c.phase = "replied" /\ c.status = "success"
                     /\ calls' = calls (-) SetToBag({c})
                     /\ app'.chat = Append(app.chat, SentEntry(c))
          /\ \A c \in InFlight :
                ( /\ c.ep = "send_message"
                  /\ calls' = calls (-) SetToBag({c}) )
                => ( \/ /\ c.phase = "replied" /\ c.status = "success"
                        /\ app'.chat = Append(app.chat, SentEntry(c))
                     \/ /\ app'.chat = app.chat
                        /\ app'.messageInput = app.messageInput
                        /\ app'.notification = "error" )
          /\ ( /\ Trim(app'.messageInput) = ""
               /\ app'.messageInput # app.messageInput )
               => BagCardinality(calls') <= BagCardinality(calls)
       ]_vars

\* A message was sent and logged, a later call was refused and its text is
\* still in the input field, with the error notified.
C33_Witness ==
    /\ TextsOf(app.chat, "sent") = <<"m1">>
    /\ app.messageInput = "m1"
    /\ app.notification = "error"
    /\ session.state = "closed"
    /\ calls = EmptyBag

\* Blanks were typed and sent: no call was made.
C33_WitnessBlank ==
    /\ app.messageInput = "ws"
    /\ calls = EmptyBag


\* C34: a message of the push stream that is not JSON, or whose type the
\* client does not know, is skipped: the step that delivers it changes
\* nothing of the client, whose stream stays open, and the event that
\* follows it on the stream is handled as if the message had not been there.
C34_ForeignSkipped ==
    /\ [](\A f \in Foreign : onmessage(sse, f) = sse)
    /\ []( ( /\ Len(stream) = 2
             /\ stream[1] \in Foreign )
           => onmessage(onmessage(sse, stream[1]), stream[2])
                = onmessage(sse, stream[2]) )
    /\ [][ ( /\ observer /\ observer'
             /\ stream # <<>>
             /\ Head(stream) \in Foreign
             /\ stream' = Tail(stream) )
           => /\ sse' = sse
              /\ sse'.eventSource = "open"
      ]_vars

\* A message of an unknown type is about to be delivered to the connected
\* client, with the closed state of the Session behind it on the stream.
C34_Witness ==
    /\ observer
    /\ sse.eventSource = "open"
    /\ sse.connectionState = "connected"
    /\ stream = <<Unknown, StateChanged("closed")>>


\* C35: in neither client are the disconnect control and the reset control
\* visible at the same time (the poll replies have is_connected true in the
\* connected state only).
C35_OneControl ==
    /\ ~(app.disconnectBtn /\ app.resetBtn)
    /\ ~(sse.disconnectBtn /\ sse.resetBtn)

\* Both clients show the disconnect control alone in a connection that was
\* opened after the peer had closed an earlier one, when each showed the
\* reset control.
C35_Witness ==
    /\ session.state = "connected"
    /\ app.connectionState = "connected"
    /\ app.disconnectBtn /\ ~app.resetBtn
    /\ sse.connectionState = "connected"
    /\ sse.disconnectBtn /\ ~sse.resetBtn
    /\ sse.notification = "warning"

=============================================================================
